---- MODULE Spec2Model ----
(***************************************************************************)
(* Audio-Note: the speaker diarization engine (SpeakerDiarization) as a    *)
(* state machine.                                                          *)
(*                                                                         *)
(* Numbers.  JavaScript numbers are modelled by integers in fixed units:   *)
(*   - feature values and vector components: thousandths (0.1 is 100);     *)
(*   - times (frame time, chunk timestamps, mergeThreshold): tenths of a   *)
(*     second (0.5 s is 5);                                                *)
(*   - progress: hundredths (0.1 is 10, 1.0 is 100).                       *)
(* A centroid is a mean, kept exactly as the pair (component sums, count). *)
(* Arithmetic is exact: floating-point rounding is outside the model.      *)
(*                                                                         *)
(* Control.  processDiarization is an async function: it runs              *)
(* synchronously up to its single await, and again from the await to its   *)
(* end.  Other code runs only where the engine hands control away: inside  *)
(* a notification handler it invokes, and while it awaits.  Every action   *)
(* below is one maximal synchronous stretch of the engine's code.          *)
(***************************************************************************)
EXTENDS Integers, Sequences, FiniteSets, TLC

VARIABLES
    isProcessing,    \* this.isProcessing
    maxSpeakers,     \* this.maxSpeakers
    mergeThreshold,  \* this.mergeThreshold (tenths of a second)
    handlers,        \* the callback slots that hold a function
    runs,            \* the processDiarization calls, one record each
    stack,           \* call stack: the runs suspended inside one of their handlers
    mpc,             \* merge pass applied alone: position
    mSegments,       \* merge pass applied alone: the labeled segments given
    mResult,         \* merge pass applied alone: the list returned
    lpc,             \* labeling applied alone: position
    lClustered,      \* labeling applied alone: the labeled frame series given
    lChunks,         \* labeling applied alone: the transcript chunks given
    lLabeled,        \* labeling applied alone: the segments returned
    kpc,             \* kMeansClustering: position
    kVectors,        \* kMeansClustering: vectors
    kCount,          \* kMeansClustering: k
    kCentroids,      \* kMeansClustering: centroids
    kAssignments,    \* kMeansClustering: assignments
    kIterations,     \* kMeansClustering: iterations
    kChanged,        \* kMeansClustering: changed
    minSegmentDuration, \* this.minSegmentDuration (tenths of a second)
    speakerCalls,    \* history: the arguments of the setMaxSpeakers calls noted
    now,             \* Date.now(), in milliseconds
    isRecording,     \* AudioProcessor: this.isRecording
    isPaused,        \* AudioProcessor: this.isPaused
    recordingStartTime, \* AudioProcessor: this.recordingStartTime
    pauseStartTime,  \* AudioProcessor: this.pauseStartTime
    totalPauseDuration, \* AudioProcessor: this.totalPauseDuration
    currentRecordingId, \* AudioProcessor: this.currentRecordingId
    recorderState,   \* AudioProcessor: this.mediaRecorder.state
    starting,        \* the startRecording calls awaiting db.createRecording()
    stopping,        \* where the stop event and its handler stand
    stopped,         \* history: the duration the stop handler computed
    pausedTime,      \* history: clock time spent paused in this recording
    recordedFeatures, \* AudioProcessor: this.audioFeatures
    ticked,          \* history: the last step was an extraction tick
    appIsRecording,  \* app.js: appState.isRecording
    appIsPaused,     \* app.js: appState.isPaused
    appRecordingId,  \* app.js: appState.currentRecordingId
    appFeatures,     \* app.js: the series stopRecording read
    stopAwaited,     \* app.js: stopRecording awaits the stop handler's promise
    prevFreqData,    \* AudioProcessor: this.prevFreqData
    extracted,       \* history: the spectra given to calculateSpectralFlux, with the flux returned
    zpc,             \* calculateZeroCrossingRate applied alone: position
    zTimeData,       \* calculateZeroCrossingRate applied alone: timeData
    zeroCrossingRate, \* calculateZeroCrossingRate applied alone: the rate returned
    drawn,           \* history: what Math.random yielded for the run in flight
    earlier,         \* history: the run before this one, as it returned
    transcripts,     \* AudioDatabase: the rows of the transcripts table
    saves,           \* the saveTranscript calls made, each with its position
    written,         \* history: the saves that resolved, in the order of their writes
    recognizerProcessor,    \* SpeechRecognizer: this.processor is set
    recognizerIsProcessing, \* SpeechRecognizer: this.isProcessing
    recognizerHandlers,     \* SpeechRecognizer: the callback slots that are set
    transcriptions,  \* the transcribe calls made, each with its position and history
    jobs             \* app.js: the runs of stopRecording past its first await

configVars == <<minSegmentDuration, speakerCalls>>
sessionVars == <<isRecording, isPaused, recordingStartTime, pauseStartTime,
                 totalPauseDuration, currentRecordingId, recorderState,
                 starting, stopping, stopped, pausedTime>>
recorderVars == <<now, sessionVars, recordedFeatures, ticked>>
appVars == <<appIsRecording, appIsPaused, appRecordingId, appFeatures, stopAwaited, jobs>>
fluxVars == <<prevFreqData, extracted>>
zcrVars == <<zpc, zTimeData, zeroCrossingRate>>
processorVars == <<recorderVars, appVars, fluxVars, zcrVars>>
twinVars == <<drawn, earlier>>
databaseVars == <<transcripts, saves, written>>
recognizerVars == <<recognizerProcessor, recognizerIsProcessing, recognizerHandlers,
                    transcriptions>>
laterVars == <<twinVars, databaseVars, recognizerVars>>

vars == <<isProcessing, maxSpeakers, mergeThreshold, handlers, runs, stack,
          mpc, mSegments, mResult, lpc, lClustered, lChunks, lLabeled,
          kpc, kVectors, kCount, kCentroids, kAssignments, kIterations, kChanged,
          configVars, processorVars, laterVars>>

engineVars == <<isProcessing, maxSpeakers, mergeThreshold, handlers, runs, stack>>
mergeVars == <<mpc, mSegments, mResult>>
labelVars == <<lpc, lClustered, lChunks, lLabeled>>
kMeansVars == <<kpc, kVectors, kCount, kCentroids, kAssignments, kIterations, kChanged>>
diarizationVars == <<engineVars, mergeVars, labelVars, kMeansVars, configVars>>

----------------------------------------------------------------------------
(* Bounds of the model *)

MaxRuns == 2
MaxFrames == 3
MaxChunks == 3
MaxCalls == 2
MaxClock == 2
MaxSeries == 2
MaxRecordings == 2
MaxExtracts == 3
MaxSamples == 4
MaxSaves == 2
MaxTranscriptions == 3

(* Program constants *)

DefaultMaxSpeakers == 3
DefaultMergeThreshold == 5
SilenceThreshold == 100
MaxIterations == 100
MinSpeakers == 1
SpeakerCap == 10
DefaultMinSegmentDuration == 10
NoRecording == 0
NoRate == [count |-> 0, length |-> 0]

----------------------------------------------------------------------------
(* Small helpers *)

Min(a, b) == IF a <= b THEN a ELSE b
Max(a, b) == IF a >= b THEN a ELSE b

Range(s) == {s[i] : i \in 1..Len(s)}

RECURSIVE SumSeq(_)
SumSeq(s) == IF s = <<>> THEN 0 ELSE Head(s) + SumSeq(Tail(s))

SeqsUpTo(S, n) == UNION {[1..m -> S] : m \in 0..n}

----------------------------------------------------------------------------
(* extractFeatureVectors *)

(* A frame of the feature history is [time, features]; features is <<f>>,  *)
(* or <<>> when the frame carries no features object (reading a property   *)
(* of it then throws a TypeError).                                         *)
FrameVector(features) ==
    << features.spectralCentroid,
       features.rms * 100,
       features.spectralFlux * 10,
       features.zeroCrossingRate * 1000,
       features.bandEnergies.lowBand * 10,
       features.bandEnergies.midBand * 10,
       features.bandEnergies.highBand * 10 >>

ExtractThrows(audioFeatures) ==
    \E i \in 1..Len(audioFeatures) : audioFeatures[i].features = <<>>

ExtractFeatureVectors(audioFeatures) ==
    [i \in 1..Len(audioFeatures) |->
        [time |-> audioFeatures[i].time,
         vector |-> FrameVector(audioFeatures[i].features[1])]]

----------------------------------------------------------------------------
(* euclideanDistance, kMeansClustering *)

(* A centroid is [sum, n]: the point sum/n.  An initial centroid is a copy *)
(* of a vector: [sum |-> v, n |-> 1].                                      *)
CentroidOf(v) == [sum |-> v, n |-> 1]

(* n^2 times the squared distance from vec to the centroid. *)
ScaledSquaredDistance(vec, centroid) ==
    SumSeq([j \in 1..Len(vec) |->
        (centroid.n * vec[j] - centroid.sum[j]) * (centroid.n * vec[j] - centroid.sum[j])])

(* euclideanDistance(vec, c1) < euclideanDistance(vec, c2); the square     *)
(* root is increasing, so squared distances compare the same way.          *)
DistanceLess(vec, c1, c2) ==
    ScaledSquaredDistance(vec, c1) * c2.n * c2.n
        < ScaledSquaredDistance(vec, c2) * c1.n * c1.n

(* The scan "for j in 0..k-1: if (distance < minDistance)": closest is the *)
(* index kept so far, -1 while minDistance is Infinity.  Indices are the   *)
(* code's: 0..k-1.                                                         *)
RECURSIVE ScanCentroidsFromOne(_, _, _, _)
ScanCentroidsFromOne(vec, centroids, j, closest) ==
    IF j >= Len(centroids)
    THEN Max(closest, 0) + 1
    ELSE IF closest = -1 \/ DistanceLess(vec, centroids[j + 1], centroids[closest + 1])
         THEN ScanCentroidsFromOne(vec, centroids, j + 1, j)
         ELSE ScanCentroidsFromOne(vec, centroids, j + 1, closest)
RECURSIVE ScanCentroidsLastWins(_, _, _, _)
ScanCentroidsLastWins(vec, centroids, j, closest) ==
    IF j >= Len(centroids)
    THEN Max(closest, 0)
    ELSE IF closest = -1 \/ ~DistanceLess(vec, centroids[closest + 1], centroids[j + 1])
         THEN ScanCentroidsLastWins(vec, centroids, j + 1, j)
         ELSE ScanCentroidsLastWins(vec, centroids, j + 1, closest)
RECURSIVE ScanCentroids(_, _, _, _)
ScanCentroids(vec, centroids, j, closest) ==
    IF j >= Len(centroids)
    THEN Max(closest, 0)
    ELSE IF closest = -1 \/ DistanceLess(vec, centroids[j + 1], centroids[closest + 1])
         THEN ScanCentroids(vec, centroids, j + 1, j)
         ELSE ScanCentroids(vec, centroids, j + 1, closest)

ClosestCentroid(vec, centroids) == ScanCentroids(vec, centroids, 0, -1)

Members(assignments, c) == {i \in 1..Len(assignments) : assignments[i] = c}

(* Step 2 of a round: the mean of the vectors assigned to the centroid; a  *)
(* centroid with no vector keeps its position.                             *)
Recompute(vectors, assignments, centroids) ==
    [j \in 1..Len(centroids) |->
        LET members == Members(assignments, j - 1)
        IN  IF members = {}
            THEN centroids[j]
            ELSE [sum |-> [d \in 1..Len(vectors[1]) |->
                             SumSeq([i \in 1..Len(vectors) |->
                                 IF i \in members THEN vectors[i][d] ELSE 0])],
                  n |-> Cardinality(members)]]

Assign(vectors, centroids) ==
    [i \in 1..Len(vectors) |-> ClosestCentroid(vectors[i], centroids)]

(* while (changed && iterations < maxIterations) *)
LoopContinuesToCap(wasChanged, rounds) == rounds < MaxIterations
LoopContinues(wasChanged, rounds) == wasChanged /\ rounds < MaxIterations

(* The while loop, entered with changed = TRUE. *)
RECURSIVE KMeansLoop(_, _, _, _)
KMeansLoop(vectors, centroids, assignments, iterations) ==
    IF iterations >= MaxIterations
    THEN [centroids |-> centroids, assignments |-> assignments,
          iterations |-> iterations]
    ELSE LET newAssignments == Assign(vectors, centroids)
             changed == newAssignments # assignments
             newCentroids == Recompute(vectors, newAssignments, centroids)
         IN  IF changed
             THEN KMeansLoop(vectors, newCentroids, newAssignments, iterations + 1)
             ELSE [centroids |-> newCentroids, assignments |-> newAssignments,
                   iterations |-> iterations + 1]

(* randomIndex[j] is Math.floor(Math.random() * vectors.length) as drawn   *)
(* for centroid j: any index 0..vectors.length-1.                          *)
KMeansClustering(vectors, k, randomIndex) ==
    IF Len(vectors) = 0
    THEN [centroids |-> <<>>, assignments |-> <<>>, iterations |-> 0]
    ELSE KMeansLoop(vectors,
                    [j \in 1..k |-> CentroidOf(vectors[randomIndex[j] + 1])],
                    [i \in 1..Len(vectors) |-> -1],
                    0)

----------------------------------------------------------------------------
(* clusterFeatureVectors *)

IsActiveAtThreshold(v) == v.vector[2] >= SilenceThreshold
IsActive(v) == v.vector[2] > SilenceThreshold

ActiveVectors(featureVectors) == SelectSeq(featureVectors, IsActive)

(* k as passed to kMeansClustering: Math.min(k, activeVectors.length). *)
ClusterCountMax(featureVectors, k) == Max(k, Len(ActiveVectors(featureVectors)))
ClusterCount(featureVectors, k) == Min(k, Len(ActiveVectors(featureVectors)))

(* The draws one clustering of featureVectors consumes. *)
RandomDraws(featureVectors, k) ==
    LET n == Len(ActiveVectors(featureVectors))
    IN  IF n = 0 THEN {<<>>} ELSE [1..ClusterCount(featureVectors, k) -> 0..(n - 1)]

(* The vectors handed to kMeansClustering: activeVectors.map(v => v.vector) *)
KMeansInput(featureVectors) ==
    LET activeVectors == ActiveVectors(featureVectors)
    IN  [i \in 1..Len(activeVectors) |-> activeVectors[i].vector]

ClusterFeatureVectors(featureVectors, k, randomIndex) ==
    IF Len(ActiveVectors(featureVectors)) = 0
    THEN <<>>
    ELSE LET kMeans == KMeansClustering(KMeansInput(featureVectors),
                                        ClusterCount(featureVectors, k),
                                        randomIndex)
         IN  [i \in 1..Len(featureVectors) |->
                LET v == featureVectors[i]
                IN  [time |-> v.time,
                     vector |-> v.vector,
                     cluster |-> IF v.vector[2] <= SilenceThreshold
                                 THEN -1
                                 ELSE ClosestCentroid(v.vector, kMeans.centroids)]]

----------------------------------------------------------------------------
(* assignSpeakersToSegments *)

Letters == << "A", "B", "C", "D", "E", "F", "G", "H", "I", "J", "K", "L", "M",
              "N", "O", "P", "Q", "R", "S", "T", "U", "V", "W", "X", "Y", "Z" >>

Unknown == "Unknown"

(* String.fromCharCode(65 + dominantCluster % 26), or 'Unknown'. *)
SpeakerLabelFromB(dominantCluster) ==
    IF dominantCluster >= 0 THEN Letters[((dominantCluster + 1) % 26) + 1] ELSE Unknown
SpeakerLabel(dominantCluster) ==
    IF dominantCluster >= 0 THEN Letters[(dominantCluster % 26) + 1] ELSE Unknown

(* The frames of the labeled series inside the chunk's range. *)
RelevantFeaturesHalfOpen(clusteredFeatures, startTime, endTime) ==
    {i \in 1..Len(clusteredFeatures) :
        /\ clusteredFeatures[i].time >= startTime
        /\ clusteredFeatures[i].time < endTime}
RelevantFeatures(clusteredFeatures, startTime, endTime) ==
    {i \in 1..Len(clusteredFeatures) :
        /\ clusteredFeatures[i].time >= startTime
        /\ clusteredFeatures[i].time <= endTime}

ClusterCounts(clusteredFeatures, relevant, c) ==
    Cardinality({i \in relevant : clusteredFeatures[i].cluster = c})

(* Object.entries(clusterCounts): the counted cluster ids, as integer keys *)
(* in ascending order, each with its count.                                *)
ClusterEntries(clusteredFeatures, relevant) ==
    LET ids == {clusteredFeatures[i].cluster : i \in relevant} \ {-1}
        top == IF ids = {} THEN -1 ELSE CHOOSE c \in ids : \A c2 \in ids : c2 <= c
        Counted(entry) == entry[2] > 0
    IN  SelectSeq([c \in 1..(top + 1) |->
                      <<c - 1, ClusterCounts(clusteredFeatures, relevant, c - 1)>>],
                  Counted)

(* The forEach scan: an entry is kept when its count beats maxCount. *)
RECURSIVE ScanEntriesLastWins(_, _, _, _)
ScanEntriesLastWins(entries, e, maxCount, dominantCluster) ==
    IF e > Len(entries)
    THEN dominantCluster
    ELSE IF entries[e][2] >= maxCount
         THEN ScanEntriesLastWins(entries, e + 1, entries[e][2], entries[e][1])
         ELSE ScanEntriesLastWins(entries, e + 1, maxCount, dominantCluster)
RECURSIVE ScanEntries(_, _, _, _)
ScanEntries(entries, e, maxCount, dominantCluster) ==
    IF e > Len(entries)
    THEN dominantCluster
    ELSE IF entries[e][2] > maxCount
         THEN ScanEntries(entries, e + 1, entries[e][2], entries[e][1])
         ELSE ScanEntries(entries, e + 1, maxCount, dominantCluster)

DominantCluster(clusteredFeatures, startTime, endTime) ==
    ScanEntries(ClusterEntries(clusteredFeatures,
                               RelevantFeatures(clusteredFeatures, startTime, endTime)),
                1, 0, -1)

AssignSpeakersToSegments(clusteredFeatures, transcriptionChunks) ==
    [i \in 1..Len(transcriptionChunks) |->
        LET chunk == transcriptionChunks[i]
            startTime == chunk.timestamp[1]
            endTime == chunk.timestamp[2]
        IN  [text |-> chunk.text,
             start |-> startTime,
             end |-> endTime,
             speaker |-> SpeakerLabel(
                 DominantCluster(clusteredFeatures, startTime, endTime))]]

----------------------------------------------------------------------------
(* optimizeSegments, extractUniqueSpeakers *)

(* currentSegment merges into previousSegment, the last kept segment. *)
ShouldMergeStrict(currentSegment, previousSegment, threshold) ==
    /\ currentSegment.speaker = previousSegment.speaker
    /\ currentSegment.start - previousSegment.end < threshold
ShouldMergeShort(currentSegment, previousSegment, threshold) ==
    \/ currentSegment.end - currentSegment.start < minSegmentDuration
    \/ /\ previousSegment.speaker = currentSegment.speaker
       /\ currentSegment.start - previousSegment.end <= threshold
ShouldMerge(currentSegment, previousSegment, threshold) ==
    /\ currentSegment.speaker = previousSegment.speaker
    /\ currentSegment.start - previousSegment.end <= threshold

MergeIntoWithoutSpace(previousSegment, currentSegment) ==
    [previousSegment EXCEPT !.end = currentSegment.end,
                            !.text = previousSegment.text \o currentSegment.text]
MergeInto(previousSegment, currentSegment) ==
    [previousSegment EXCEPT !.end = currentSegment.end,
                            !.text = previousSegment.text \o " " \o currentSegment.text]

(* The for loop from index i (1-based here) with the kept list result. *)
RECURSIVE MergeLoopMissingElse(_, _, _, _)
MergeLoopMissingElse(segments, i, result, threshold) ==
    IF i > Len(segments)
    THEN result
    ELSE LET currentSegment == segments[i]
             previousSegment == result[Len(result)]
         IN  IF ShouldMerge(currentSegment, previousSegment, threshold)
             THEN MergeLoopMissingElse(segments, i + 1,
                      Append([result EXCEPT ![Len(result)] =
                                 MergeInto(previousSegment, currentSegment)],
                             currentSegment),
                      threshold)
             ELSE MergeLoopMissingElse(segments, i + 1, Append(result, currentSegment),
                                       threshold)
RECURSIVE MergeLoopPairsOnly(_, _, _, _)
MergeLoopPairsOnly(segments, i, result, threshold) ==
    IF i > Len(segments)
    THEN result
    ELSE LET currentSegment == segments[i]
             previousSegment == result[Len(result)]
             merged == [result EXCEPT ![Len(result)] =
                           MergeInto(previousSegment, currentSegment)]
         IN  IF ShouldMerge(currentSegment, previousSegment, threshold)
             THEN IF i + 1 > Len(segments)
                  THEN merged
                  ELSE MergeLoopPairsOnly(segments, i + 2,
                                          Append(merged, segments[i + 1]), threshold)
             ELSE MergeLoopPairsOnly(segments, i + 1, Append(result, currentSegment),
                                     threshold)
RECURSIVE MergeLoop(_, _, _, _)
MergeLoop(segments, i, result, threshold) ==
    IF i > Len(segments)
    THEN result
    ELSE LET currentSegment == segments[i]
             previousSegment == result[Len(result)]
         IN  IF ShouldMerge(currentSegment, previousSegment, threshold)
             THEN MergeLoop(segments, i + 1,
                      [result EXCEPT ![Len(result)] =
                          MergeInto(previousSegment, currentSegment)],
                      threshold)
             ELSE MergeLoop(segments, i + 1, Append(result, currentSegment), threshold)

(* threshold is this.mergeThreshold. *)
OptimizeSegments(segments, threshold) ==
    IF Len(segments) <= 1
    THEN segments
    ELSE MergeLoop(segments, 2, <<segments[1]>>, threshold)

(* The writes of the loop: previousSegment is an object of the list given, *)
(* and the merge assigns its text and end in place.  objects is what the   *)
(* objects of the list hold, previous the index of the one kept last.      *)
RECURSIVE MergeWrites(_, _, _, _)
MergeWrites(objects, i, previous, threshold) ==
    IF i > Len(objects)
    THEN objects
    ELSE IF ShouldMerge(objects[i], objects[previous], threshold)
         THEN MergeWrites([objects EXCEPT ![previous] =
                              MergeInto(objects[previous], objects[i])],
                          i + 1, previous, threshold)
         ELSE MergeWrites(objects, i + 1, i, threshold)

(* What the objects of the labeled list hold after optimizeSegments. *)
SegmentObjectsAfterMerge(segments, threshold) ==
    IF Len(segments) <= 1
    THEN segments
    ELSE MergeWrites(segments, 2, 1, threshold)

(* Whether a labeled segment is the chunk object itself: labeling pushes a *)
(* new object literal for every chunk, so it is not.                       *)
SegmentIsItsChunk == TRUE
SegmentIsChunk == FALSE

(* The transcript after the merge pass: the writes land on the chunks only *)
(* where the segments are the chunks.                                      *)
TranscriptionAfterMerge(transcription, labeledSegments, threshold) ==
    IF SegmentIsChunk
    THEN LET objects == SegmentObjectsAfterMerge(labeledSegments, threshold)
         IN  [transcription EXCEPT !.chunks =
                 [i \in 1..Len(transcription.chunks) |->
                     [transcription.chunks[i] EXCEPT !.text = objects[i].text]]]
    ELSE transcription

(* The distinct labels other than 'Unknown', sorted; labels are letters.   *)
ExtractUniqueSpeakersAll(segments) ==
    LET uniqueSpeakers == {segments[i].speaker : i \in 1..Len(segments)}
        Present(l) == l \in uniqueSpeakers
    IN  SelectSeq(Letters \o <<Unknown>>, Present)
RECURSIVE AppearanceOrder(_, _, _)
AppearanceOrder(segments, i, seen) ==
    IF i > Len(segments)
    THEN seen
    ELSE IF segments[i].speaker = Unknown \/ segments[i].speaker \in Range(seen)
         THEN AppearanceOrder(segments, i + 1, seen)
         ELSE AppearanceOrder(segments, i + 1, Append(seen, segments[i].speaker))
ExtractUniqueSpeakersUnsorted(segments) == AppearanceOrder(segments, 1, <<>>)
ExtractUniqueSpeakers(segments) ==
    LET uniqueSpeakers == {segments[i].speaker : i \in 1..Len(segments)} \ {Unknown}
        Present(l) == l \in uniqueSpeakers
    IN  SelectSeq(Letters, Present)

----------------------------------------------------------------------------
(* processDiarization: one call *)

Runs == 1..MaxRuns

Slots == {"start", "progress", "complete", "error"}

BusyError == "a task is already being processed"
FeaturesError == "TypeError: cannot read properties of undefined (features)"
ChunksError == "TypeError: transcription.chunks is not iterable"
DefaultErrorMessage == "an error occurred during speaker diarization"

NoResult == [text |-> "", segments |-> <<>>, speakers |-> <<>>]

(* A call before it is made.  pc is where the call stands:                 *)
(*   new                          not made yet                             *)
(*   hStart hP10 hP30 hP60 hP80 hP100 hComplete hError                     *)
(*                                inside the handler it invoked            *)
(*   await                        at the await of the clustering promise   *)
(*   returned raised busy         over: resolved, rejected, rejected busy  *)
(* kMeansInput is history too: the vectors handed to kMeansClustering.     *)
(* audioFeatures and transcription are the argument objects as they are    *)
(* now; given is history: the two as they were when the call was made.     *)
(* log, reentered and exitFlag are history: the notifications delivered to *)
(* handlers, whether a call made by one of the run's handlers was          *)
(* accepted, and isProcessing as the call ended.                           *)
NewRun ==
    [pc |-> "new",
     audioFeatures |-> <<>>,
     transcription |-> [text |-> "", hasChunks |-> TRUE, chunks |-> <<>>],
     given |-> [audioFeatures |-> <<>>,
                transcription |-> [text |-> "", hasChunks |-> TRUE, chunks |-> <<>>]],
     k |-> 0,
     featureVectors |-> <<>>,
     kMeansInput |-> <<>>,
     clusters |-> <<>>,
     labeledSegments |-> <<>>,
     result |-> NoResult,
     error |-> <<>>,
     thrown |-> <<>>,
     log |-> <<>>,
     reentered |-> FALSE,
     exitFlag |-> FALSE]

HandlerPcs == {"hStart", "hP10", "hP30", "hP60", "hP80", "hP100", "hComplete", "hError"}
InFlightPcs == (HandlerPcs \ {"hError"}) \cup {"await"}
DonePcs == {"returned", "raised"}
OverPcs == DonePcs \cup {"busy"}

(* updateProgress: the value delivered. *)
UpdateProgressClampSwapped(progress) == Max(100, Min(0, progress))
UpdateProgressValue(progress) == Min(100, Max(0, progress))

(* The updateProgress calls: position, value, message, handler pc, next.   *)
ProgressCallsMisordered ==
    << [pos |-> "p10",  progress |-> 10,  message |-> "extracting feature vectors",
        hpc |-> "hP10",  next |-> "extract"],
       [pos |-> "p30",  progress |-> 30,  message |-> "clustering",
        hpc |-> "hP30",  next |-> "cluster"],
       [pos |-> "p60",  progress |-> 80,  message |-> "assigning speakers to segments",
        hpc |-> "hP60",  next |-> "label"],
       [pos |-> "p80",  progress |-> 60,  message |-> "optimizing segments",
        hpc |-> "hP80",  next |-> "optimize"],
       [pos |-> "p100", progress |-> 100, message |-> "done",
        hpc |-> "hP100", next |-> "complete"] >>
ProgressCalls ==
    << [pos |-> "p10",  progress |-> 10,  message |-> "extracting feature vectors",
        hpc |-> "hP10",  next |-> "extract"],
       [pos |-> "p30",  progress |-> 30,  message |-> "clustering",
        hpc |-> "hP30",  next |-> "cluster"],
       [pos |-> "p60",  progress |-> 60,  message |-> "assigning speakers to segments",
        hpc |-> "hP60",  next |-> "label"],
       [pos |-> "p80",  progress |-> 80,  message |-> "optimizing segments",
        hpc |-> "hP80",  next |-> "optimize"],
       [pos |-> "p100", progress |-> 100, message |-> "done",
        hpc |-> "hP100", next |-> "complete"] >>

ProgressCall(pos) == CHOOSE c \in Range(ProgressCalls) : c.pos = pos

ProgressNote(c) ==
    [type |-> "progress", progress |-> UpdateProgressValue(c.progress), message |-> c.message]
StartNote == [type |-> "start"]
CompleteNote(result) == [type |-> "complete", result |-> result]
(* error.message || the default message *)
ErrorNote(error) ==
    [type |-> "error", phase |-> "diarization",
     error |-> IF error[1].message # "" THEN error[1].message ELSE DefaultErrorMessage]

(* Where the code goes on when the handler entered at pc returns. *)
AfterHandler(pc) ==
    CASE pc = "hStart" -> "p10"
      [] pc = "hComplete" -> "finish"
      [] pc = "hError" -> "rethrow"
      [] OTHER -> (CHOOSE c \in Range(ProgressCalls) : c.hpc = pc).next

(* The catch block: the flag is cleared, then onError is invoked if set. *)
CatchSetsFlag(flag) == TRUE
CatchKeepsFlag(flag) == flag
CatchClearsFlag(flag) == FALSE

(* "for (const chunk of transcriptionChunks)" throws a TypeError when the  *)
(* transcription has no chunks array.                                      *)
LabelThrowsOnNoChunk(transcription) ==
    ~transcription.hasChunks \/ transcription.chunks = <<>>
LabelThrows(transcription) == ~transcription.hasChunks

(* The result object built from the optimized segments. *)
BuildResult(transcription, optimizedSegments) ==
    [text |-> transcription.text,
     segments |-> optimizedSegments,
     speakers |-> ExtractUniqueSpeakers(optimizedSegments)]

(* The code from position pos up to the next place where it hands control *)
(* away (a handler, the await) or ends.  st is [run, flag]: the call and   *)
(* this.isProcessing.  installed, speakers and threshold are the callback  *)
(* slots set, this.maxSpeakers and this.mergeThreshold; randomIndex is     *)
(* what Math.random yields if this stretch clusters.                       *)
RECURSIVE Exec(_, _, _, _, _, _)
Exec(pos, st, installed, speakers, threshold, randomIndex) ==
    LET run == st.run
        Go(next, st2) ==
            \* st2 is evaluated once, here, and handed on as a value
            CHOOSE after \in {Exec(next, value, installed, speakers, threshold, randomIndex) :
                                 value \in {st2}} : TRUE
        Deliver(slot, note, hpc, next) ==
            IF slot \in installed
            THEN [st EXCEPT !.run.pc = hpc, !.run.log = Append(@, note)]
            ELSE Go(next, st)
        Throw(message) == Go("catch", [st EXCEPT !.run.error = <<[message |-> message]>>])
    IN  CASE pos = "start" ->
                Deliver("start", StartNote, "hStart", "p10")
          [] pos \in {"p10", "p30", "p60", "p80", "p100"} ->
                LET c == ProgressCall(pos)
                IN  Deliver("progress", ProgressNote(c), c.hpc, c.next)
          [] pos = "extract" ->
                IF ExtractThrows(run.audioFeatures)
                THEN Throw(FeaturesError)
                ELSE Go("p30", [st EXCEPT !.run.featureVectors =
                                    ExtractFeatureVectors(run.audioFeatures)])
          [] pos = "cluster" ->
                [st EXCEPT !.run.pc = "await",
                           !.run.k = speakers,
                           !.run.kMeansInput = KMeansInput(run.featureVectors),
                           !.run.clusters =
                               ClusterFeatureVectors(run.featureVectors, speakers, randomIndex)]
          [] pos = "resume" ->
                Go("p60", st)
          [] pos = "label" ->
                IF LabelThrows(run.transcription)
                THEN Throw(ChunksError)
                ELSE Go("p80", [st EXCEPT !.run.labeledSegments =
                                    AssignSpeakersToSegments(run.clusters,
                                                             run.transcription.chunks)])
          [] pos = "optimize" ->
                Go("p100", [st EXCEPT !.run.result =
                                BuildResult(run.transcription,
                                            OptimizeSegments(run.labeledSegments, threshold)),
                                      !.run.transcription =
                                TranscriptionAfterMerge(run.transcription,
                                                        run.labeledSegments, threshold)])
          [] pos = "complete" ->
                Deliver("complete", CompleteNote(run.result), "hComplete", "finish")
          [] pos = "finish" ->
                [st EXCEPT !.flag = FALSE, !.run.pc = "returned", !.run.exitFlag = FALSE]
          [] pos = "catch" ->
                LET cleared == [st EXCEPT !.flag = CatchClearsFlag(st.flag)]
                IN  IF "error" \in installed
                    THEN [cleared EXCEPT !.run.pc = "hError",
                                         !.run.log = Append(@, ErrorNote(run.error))]
                    ELSE Go("rethrow", cleared)
          [] pos = "rethrow" ->
                [st EXCEPT !.run.pc = "raised", !.run.thrown = run.error,
                           !.run.exitFlag = st.flag]

----------------------------------------------------------------------------
(* Inputs *)

Features(sc, rms, flux, zcr, low, mid, high) ==
    [spectralCentroid |-> sc, rms |-> rms, spectralFlux |-> flux,
     zeroCrossingRate |-> zcr,
     bandEnergies |-> [lowBand |-> low, midBand |-> mid, highBand |-> high]]

(* Feature values in thousandths; rms 1 scales to exactly the threshold. *)
Silent      == Features(0, 0, 0, 0, 0, 0, 0)
AtThreshold == Features(20, 1, 0, 0, 1, 0, 0)
VoiceA      == Features(10, 2, 1, 0, 3, 1, 0)
VoiceB      == Features(40, 5, 0, 0, 0, 2, 4)

FeaturePalette == {Silent, AtThreshold, VoiceA, VoiceB}

Frame(t, f) == [time |-> t, features |-> <<f>>]
BrokenFrame(t) == [time |-> t, features |-> <<>>]

Chunk(text, startTime, endTime) == [text |-> text, timestamp |-> <<startTime, endTime>>]

Transcription(text, chunks) == [text |-> text, hasChunks |-> TRUE, chunks |-> chunks]
TranscriptionWithoutChunks(text) == [text |-> text, hasChunks |-> FALSE, chunks |-> <<>>]

Input(audioFeatures, transcription) ==
    [audioFeatures |-> audioFeatures, transcription |-> transcription]

(* The inputs of the control specification: a plain one, one with no       *)
(* active frame, one with no chunk, and two on which a phase throws.       *)
GoodInput == Input(<<Frame(5, VoiceA)>>, Transcription("hello", <<Chunk("hello", 0, 10)>>))
SilentInput == Input(<<Frame(5, Silent)>>, Transcription("hello", <<Chunk("hello", 0, 10)>>))
NoChunksInput == Input(<<Frame(5, VoiceA)>>, Transcription("", <<>>))
BadFeaturesInput == Input(<<BrokenFrame(5)>>, Transcription("hello", <<Chunk("hello", 0, 10)>>))
BadTranscriptionInput == Input(<<Frame(5, VoiceA)>>, TranscriptionWithoutChunks("hello"))

ControlInputs ==
    {GoodInput, SilentInput, NoChunksInput, BadFeaturesInput, BadTranscriptionInput}

(* Transcripts.  The first chunk starts at 0; each chunk lasts one of      *)
(* Durations and starts one of Gaps after the end of the chunk before it   *)
(* (a negative gap: the chunks overlap).  Times in tenths of a second.     *)
Durations == {8, 10}
Gaps == {-8, 2, 6}
Words == <<"hello", "world", "again", "there", "friend">>
Word(i) == Words[((i - 1) % Len(Words)) + 1]

ChunkShapes == [gap : Gaps, duration : Durations]

RECURSIVE StartOf(_, _)
StartOf(shapes, i) ==
    IF i = 1 THEN 0
    ELSE StartOf(shapes, i - 1) + shapes[i - 1].duration + shapes[i].gap

ShapeLists ==
    {shapes \in SeqsUpTo(ChunkShapes, MaxChunks) : Len(shapes) > 0 => shapes[1].gap = 2}

ChunksOf(shapes) ==
    [i \in 1..Len(shapes) |->
        Chunk(Word(i), StartOf(shapes, i), StartOf(shapes, i) + shapes[i].duration)]

(* What labeling hands to the merge pass: one segment per chunk, with a   *)
(* speaker label.                                                          *)
SegmentSpeakers == {"A", Unknown}

LabeledLists ==
    UNION {LET chunks == ChunksOf(shapes)
           IN  {[i \in 1..Len(chunks) |->
                   [text |-> chunks[i].text,
                    start |-> chunks[i].timestamp[1],
                    end |-> chunks[i].timestamp[2],
                    speaker |-> labels[i]]] :
                 labels \in [1..Len(chunks) -> SegmentSpeakers]} :
           shapes \in ShapeLists}

MergeThresholds == {2, 5}

(* Feature histories of the pipeline specification: frame i is taken at    *)
(* 12 (i - 1) + 5, inside the i-th chunk of a transcript of chunks 10 long *)
(* and 2 apart.                                                            *)
PipelinePalette == {Silent, AtThreshold, VoiceA, VoiceB}

Histories ==
    {[i \in 1..Len(fs) |-> Frame(12 * (i - 1) + 5, fs[i])] :
        fs \in SeqsUpTo(PipelinePalette, MaxFrames)}

EvenChunks(n) == ChunksOf([i \in 1..n |-> [gap |-> 2, duration |-> 10]])
JoinedText(chunks) == IF chunks = <<>> THEN "" ELSE "transcript"

(* No chunk, one chunk around each frame time, one chunk over all frames. *)
PipelineTranscriptions ==
    {Transcription(JoinedText(EvenChunks(n)), EvenChunks(n)) : n \in {0, MaxChunks}}
        \cup {Transcription("all", <<Chunk("all", 0, 12 * MaxFrames)>>)}

PipelineInputs ==
    {Input(h, t) : h \in Histories, t \in PipelineTranscriptions}

SpeakerCounts == {0, 1, 2}

(* Vectors for kMeansClustering called alone: lists of one to MaxFrames    *)
(* vectors of three voices, in the palette's order (the clustering of a    *)
(* list in another order is the same, the assignments reordered); with     *)
(* them every k from 1 to the number of vectors and every draw of the      *)
(* initial centroids.  VoiceC is near VoiceB.                              *)
VoiceC      == Features(36, 5, 0, 0, 1, 2, 3)
KMeansPalette == <<FrameVector(VoiceA), FrameVector(VoiceC), FrameVector(VoiceB)>>

KMeansVectors ==
    {[i \in 1..Len(picks) |-> KMeansPalette[picks[i]]] :
        picks \in {p \in SeqsUpTo(1..Len(KMeansPalette), MaxFrames) :
                      /\ Len(p) >= 1
                      /\ \A i \in 1..(Len(p) - 1) : p[i] <= p[i + 1]}}

(* Labeled frame series for the labeling applied alone: frames in the     *)
(* order they were recorded, each with the cluster id the clustering gave  *)
(* it (-1: silent).                                                        *)
LabelTimes == {5, 10}
LabelClusters == {-1, 0, 1}

LabeledSeries ==
    {series \in SeqsUpTo([time : LabelTimes, cluster : LabelClusters], MaxFrames) :
        \A i \in 1..(Len(series) - 1) : series[i].time <= series[i + 1].time}

(* Chunk ranges: two that share the boundary 10, one over every frame      *)
(* time, one that holds no frame time.  A transcript has up to two chunks. *)
LabelRanges == {<<0, 10>>, <<10, 20>>, <<0, 20>>, <<6, 9>>}

LabelTranscripts ==
    {[i \in 1..Len(ranges) |-> Chunk(Word(i), ranges[i][1], ranges[i][2])] :
        ranges \in {<<>>} \cup [1..1 -> LabelRanges] \cup [1..2 -> LabelRanges]}

(* The callback slots an application sets: all, those js/app.js sets, the *)
(* error slot alone, the progress and error slots.                        *)
(* Arguments of setMaxSpeakers: below, inside and above the range kept. *)
SpeakerArguments == (MinSpeakers - 2)..(SpeakerCap + 2)

HandlerConfigs ==
    {Slots, {"start", "progress", "complete"}, {"error"}, {"progress", "error"}}

(* What a handler may throw. *)
HandlerErrors == {"handler failed"}

----------------------------------------------------------------------------
(* Actions of the engine *)

Last(s) == s[Len(s)]
Front(s) == SubSeq(s, 1, Len(s) - 1)

(* Who is executing: the handler of the run on top of the stack, or, with  *)
(* an empty stack, code outside the engine.                                *)
Caller == IF stack = <<>> THEN 0 ELSE Last(stack)

(* The draws the stretch of code starting now may consume. *)
DrawsFor(audioFeatures) ==
    IF ExtractThrows(audioFeatures)
    THEN {<<>>}
    ELSE RandomDraws(ExtractFeatureVectors(audioFeatures), maxSpeakers)

(* The guard of processDiarization. *)
BusyGuardMissing(flag) == FALSE
BusyGuard(flag) == flag

(* The guard's throw: nothing but the rejection. *)
RejectBusyInsideTry(st) ==
    Exec("catch", [st EXCEPT !.run.error = <<[message |-> BusyError]>>],
         handlers, maxSpeakers, mergeThreshold, <<>>)
RejectBusy(st) ==
    [st EXCEPT !.run.pc = "busy", !.run.thrown = <<[message |-> BusyError]>>,
               !.run.exitFlag = st.flag]

(* Math.max(1, Math.min(10, count)) *)
ClampSpeakersBelowOnly(count) == Max(MinSpeakers, count)
ClampSpeakers(count) == Max(MinSpeakers, Min(SpeakerCap, count))

(* The record of a call that is over is kept for one step, then dropped. *)
Sweep(rs) == [r \in Runs |-> IF rs[r].pc \in OverPcs THEN NewRun ELSE rs[r]]

FreeRuns == {r \in Runs : runs[r].pc \in OverPcs \cup {"new"}}

(* The state after the stretch st of the run r; below is the stack under  *)
(* the run.                                                                *)
Commit(r, st, below) ==
    /\ runs' = [Sweep(runs) EXCEPT ![r] = st.run]
    /\ isProcessing' = st.flag
    /\ stack' = IF st.run.pc \in HandlerPcs THEN Append(below, r) ELSE below

(* As Commit, for a call: the run whose handler made the call, if any,     *)
(* notes that a call it made was accepted.                                 *)
CommitCall(r, st) ==
    /\ runs' = [r2 \in Runs |->
                  IF r2 = r THEN st.run
                  ELSE IF r2 = Caller /\ st.run.pc # "busy"
                       THEN [runs[r2] EXCEPT !.reentered = TRUE]
                       ELSE Sweep(runs)[r2]]
    /\ isProcessing' = st.flag
    /\ stack' = IF st.run.pc \in HandlerPcs THEN Append(stack, r) ELSE stack

(* processDiarization(audioFeatures, transcription) is called, by code     *)
(* outside the engine or by a handler: the guard, and if it passes the     *)
(* code up to the first handler or the await.                              *)
Call(r, input) ==
    /\ r \in FreeRuns
    /\ \A r2 \in FreeRuns : r <= r2
    /\ \E st \in
          IF BusyGuard(isProcessing)
          THEN {RejectBusy([run |-> NewRun, flag |-> isProcessing])}
          ELSE {Exec("start",
                     [run |-> [NewRun EXCEPT !.audioFeatures = input.audioFeatures,
                                             !.transcription = input.transcription,
                                             !.given = input],
                      flag |-> TRUE],
                     handlers, maxSpeakers, mergeThreshold, randomIndex) :
                   randomIndex \in DrawsFor(input.audioFeatures)} :
          CommitCall(r, st)
    /\ UNCHANGED <<maxSpeakers, mergeThreshold, handlers, mergeVars, labelVars, kMeansVars, configVars, processorVars, laterVars>>

(* The handler the run r is in returns: the code goes on. *)
HandlerReturn(r) ==
    /\ stack # <<>>
    /\ r = Last(stack)
    /\ \E randomIndex \in DrawsFor(runs[r].audioFeatures) :
          Commit(r,
                 Exec(AfterHandler(runs[r].pc), [run |-> runs[r], flag |-> isProcessing],
                      handlers, maxSpeakers, mergeThreshold, randomIndex),
                 Front(stack))
    /\ UNCHANGED <<maxSpeakers, mergeThreshold, handlers, mergeVars, labelVars, kMeansVars, configVars, processorVars, laterVars>>

(* The handler the run r is in throws: inside the try block the catch      *)
(* block takes over; onError is called from the catch block itself, so     *)
(* what it throws leaves processDiarization.                               *)
HandlerThrow(r, message) ==
    /\ stack # <<>>
    /\ r = Last(stack)
    /\ LET st == [run |-> runs[r], flag |-> isProcessing]
           thrown == <<[message |-> message]>>
       IN  IF runs[r].pc = "hError"
           THEN Commit(r, [st EXCEPT !.run.pc = "raised", !.run.thrown = thrown,
                                     !.run.exitFlag = st.flag],
                       Front(stack))
           ELSE Commit(r,
                       Exec("catch", [st EXCEPT !.run.error = thrown],
                            handlers, maxSpeakers, mergeThreshold, <<>>),
                       Front(stack))
    /\ UNCHANGED <<maxSpeakers, mergeThreshold, handlers, mergeVars, labelVars, kMeansVars, configVars, processorVars, laterVars>>

(* The clustering promise is settled and no code is running: the run goes  *)
(* on after its await.                                                     *)
Resume(r) ==
    /\ stack = <<>>
    /\ runs[r].pc = "await"
    /\ Commit(r,
              Exec("resume", [run |-> runs[r], flag |-> isProcessing],
                   handlers, maxSpeakers, mergeThreshold, <<>>),
              stack)
    /\ UNCHANGED <<maxSpeakers, mergeThreshold, handlers, mergeVars, labelVars, kMeansVars, configVars, processorVars, laterVars>>

(* The records of the calls that are over are dropped. *)
Forget ==
    /\ \E r \in Runs : runs[r].pc \in OverPcs
    /\ runs' = Sweep(runs)
    /\ UNCHANGED <<isProcessing, maxSpeakers, mergeThreshold, handlers, stack, mergeVars, labelVars, kMeansVars, configVars, processorVars, laterVars>>

(* The application assigns the callback slots, before it makes any call. *)
SetHandlers(slots) ==
    /\ handlers = {}
    /\ slots # {}
    /\ \A r \in Runs : runs[r].pc = "new"
    /\ handlers' = slots
    /\ UNCHANGED <<isProcessing, maxSpeakers, mergeThreshold, runs, stack, mergeVars, labelVars, kMeansVars, configVars, processorVars, laterVars>>

(* setMaxSpeakers(count) *)
SetMaxSpeakers(count) ==
    /\ maxSpeakers' = ClampSpeakers(count)
    /\ UNCHANGED <<isProcessing, mergeThreshold, handlers, runs, stack, mergeVars, labelVars, kMeansVars, configVars, processorVars, laterVars>>

(* setMaxSpeakers(count), the argument noted. *)
Configure(count) ==
    /\ Len(speakerCalls) < MaxCalls
    /\ maxSpeakers' = ClampSpeakers(count)
    /\ speakerCalls' = Append(speakerCalls, count)
    /\ UNCHANGED <<isProcessing, mergeThreshold, handlers, runs, stack, mergeVars,
                   labelVars, kMeansVars, minSegmentDuration, processorVars, laterVars>>

----------------------------------------------------------------------------
(* The state after construction *)

Init ==
    /\ isProcessing = FALSE
    /\ maxSpeakers = DefaultMaxSpeakers
    /\ mergeThreshold = DefaultMergeThreshold
    /\ handlers = {}
    /\ runs = [r \in Runs |-> NewRun]
    /\ stack = <<>>
    /\ mpc = "idle"
    /\ mSegments = <<>>
    /\ mResult = <<>>
    /\ lpc = "idle"
    /\ lClustered = <<>>
    /\ lChunks = <<>>
    /\ lLabeled = <<>>
    /\ kpc = "idle"
    /\ kVectors = <<>>
    /\ kCount = 0
    /\ kCentroids = <<>>
    /\ kAssignments = <<>>
    /\ kIterations = 0
    /\ kChanged = FALSE
    /\ minSegmentDuration = DefaultMinSegmentDuration
    /\ speakerCalls = <<>>
    /\ now = 0
    /\ isRecording = FALSE
    /\ isPaused = FALSE
    /\ recordingStartTime = 0
    /\ pauseStartTime = 0
    /\ totalPauseDuration = 0
    /\ currentRecordingId = NoRecording
    /\ recorderState = "inactive"
    /\ starting = 0
    /\ stopping = "idle"
    /\ stopped = <<>>
    /\ pausedTime = 0
    /\ recordedFeatures = <<>>
    /\ ticked = FALSE
    /\ appIsRecording = FALSE
    /\ appIsPaused = FALSE
    /\ appRecordingId = NoRecording
    /\ appFeatures = <<>>
    /\ stopAwaited = FALSE
    /\ prevFreqData = <<>>
    /\ extracted = <<>>
    /\ zpc = "idle"
    /\ zTimeData = <<>>
    /\ zeroCrossingRate = NoRate
    /\ drawn = <<>>
    /\ earlier = <<>>
    /\ transcripts = {}
    /\ saves = <<>>
    /\ written = <<>>
    /\ recognizerProcessor = FALSE
    /\ recognizerIsProcessing = FALSE
    /\ recognizerHandlers = {}
    /\ transcriptions = <<>>
    /\ jobs = <<>>

(* Calls, handlers and awaits of the engine, on the control inputs. *)
Next ==
    \/ \E slots \in HandlerConfigs : SetHandlers(slots)
    \/ \E r \in Runs, input \in ControlInputs : Call(r, input)
    \/ \E r \in Runs : HandlerReturn(r)
    \/ \E r \in Runs, message \in HandlerErrors : HandlerThrow(r, message)
    \/ \E r \in Runs : Resume(r)

Spec == Init /\ [][Next]_vars

----------------------------------------------------------------------------
(* setMaxSpeakers called any number of times, with integers around the     *)
(* range it keeps.                                                         *)

NextConfig ==
    \E count \in SpeakerArguments : Configure(count)

SpecConfig == Init /\ [][NextConfig]_vars

----------------------------------------------------------------------------
(* The pipeline on richer inputs: one call at a time, no callback set. *)

NextPipeline ==
    \/ \E count \in SpeakerCounts : SetMaxSpeakers(count)
    \/ \E input \in PipelineInputs : runs[1].pc = "new" /\ Call(1, input)
    \/ Resume(1)
    \/ Forget

SpecPipeline == Init /\ [][NextPipeline]_vars

----------------------------------------------------------------------------
(* The same call made twice, this.minSegmentDuration assigned in between:  *)
(* the second call is given the arguments of the first, and Math.random    *)
(* yields for it what it yielded for the first.                            *)

(* Chunks 0.8 s long, 0.4 s apart; the frames, one fewer than MaxFrames at *)
(* most, fall one inside each of the first chunks.                         *)
ShortChunks(n) == ChunksOf([i \in 1..n |-> [gap |-> 4, duration |-> 8]])

TwinPalette == {VoiceA, VoiceB}

TwinInputs ==
    {Input([i \in 1..Len(fs) |-> Frame(12 * (i - 1) + 5, fs[i])],
           Transcription(JoinedText(ShortChunks(MaxChunks)), ShortChunks(MaxChunks))) :
        fs \in SeqsUpTo(TwinPalette, MaxFrames - 1)}

MinSegmentDurations == {5, DefaultMinSegmentDuration}

(* this.minSegmentDuration is assigned (the constructor is the only place  *)
(* of the class that writes it). *)
SetMinSegmentDuration(duration) ==
    /\ runs[1].pc = "new"
    /\ minSegmentDuration' = duration
    /\ UNCHANGED <<engineVars, mergeVars, labelVars, kMeansVars, speakerCalls,
                   processorVars, laterVars>>

(* processDiarization(audioFeatures, transcription), the draws noted. *)
TwinCall(input, randomIndex) ==
    /\ runs[1].pc = "new"
    /\ ~BusyGuard(isProcessing)
    /\ randomIndex \in DrawsFor(input.audioFeatures)
    /\ earlier # <<>> => input = earlier[1].given /\ randomIndex = earlier[1].draws
    /\ CommitCall(1, Exec("start",
                          [run |-> [NewRun EXCEPT !.audioFeatures = input.audioFeatures,
                                                  !.transcription = input.transcription,
                                                  !.given = input],
                           flag |-> TRUE],
                          handlers, maxSpeakers, mergeThreshold, randomIndex))
    /\ drawn' = randomIndex
    /\ UNCHANGED <<maxSpeakers, mergeThreshold, handlers, mergeVars, labelVars,
                   kMeansVars, configVars, processorVars, earlier, databaseVars,
                   recognizerVars>>

(* The first call has returned: what it was given and what it returned are *)
(* noted. *)
Remember ==
    /\ runs[1].pc = "returned"
    /\ earlier = <<>>
    /\ earlier' = <<[given |-> runs[1].given,
                     draws |-> drawn,
                     maxSpeakers |-> runs[1].k,
                     mergeThreshold |-> mergeThreshold,
                     minSegmentDuration |-> minSegmentDuration,
                     result |-> runs[1].result]>>
    /\ runs' = Sweep(runs)
    /\ drawn' = <<>>
    /\ UNCHANGED <<isProcessing, maxSpeakers, mergeThreshold, handlers, stack,
                   mergeVars, labelVars, kMeansVars, configVars, processorVars,
                   databaseVars, recognizerVars>>

(* Both calls have returned: their records are dropped. *)
TwinDiscard ==
    /\ runs[1].pc = "returned"
    /\ earlier # <<>>
    /\ earlier' = <<>>
    /\ runs' = Sweep(runs)
    /\ drawn' = <<>>
    /\ UNCHANGED <<isProcessing, maxSpeakers, mergeThreshold, handlers, stack,
                   mergeVars, labelVars, kMeansVars, configVars, processorVars,
                   databaseVars, recognizerVars>>

NextTwin ==
    \/ \E duration \in MinSegmentDurations : SetMinSegmentDuration(duration)
    \/ \E input \in TwinInputs :
          \E randomIndex \in DrawsFor(input.audioFeatures) : TwinCall(input, randomIndex)
    \/ Resume(1)
    \/ Remember
    \/ TwinDiscard

SpecTwin == Init /\ [][NextTwin]_vars

----------------------------------------------------------------------------
(* The merge pass applied alone to what labeling can produce. *)

(* this.mergeThreshold is assigned. *)
SetMergeThreshold(threshold) ==
    /\ mpc = "idle"
    /\ mergeThreshold' = threshold
    /\ UNCHANGED <<isProcessing, maxSpeakers, handlers, runs, stack, mergeVars, labelVars, kMeansVars, configVars, processorVars, laterVars>>

(* optimizeSegments(segments) *)
Optimize(segments) ==
    /\ mpc = "idle"
    /\ mpc' = "done"
    /\ mSegments' = segments
    /\ mResult' = OptimizeSegments(segments, mergeThreshold)
    /\ UNCHANGED <<engineVars, labelVars, kMeansVars, configVars, processorVars, laterVars>>

(* optimizeSegments is applied to the list the call before it returned. *)
OptimizeAgain ==
    /\ mpc = "done"
    /\ mpc' = "again"
    /\ mSegments' = mResult
    /\ mResult' = OptimizeSegments(mResult, mergeThreshold)
    /\ UNCHANGED <<engineVars, labelVars, kMeansVars, configVars, processorVars, laterVars>>

Discard ==
    /\ mpc \in {"done", "again"}
    /\ mpc' = "idle"
    /\ mSegments' = <<>>
    /\ mResult' = <<>>
    /\ UNCHANGED <<engineVars, labelVars, kMeansVars, configVars, processorVars, laterVars>>

NextMerge ==
    \/ \E threshold \in MergeThresholds : SetMergeThreshold(threshold)
    \/ \E segments \in LabeledLists : Optimize(segments)
    \/ OptimizeAgain
    \/ Discard

SpecMerge == Init /\ [][NextMerge]_vars

----------------------------------------------------------------------------
(* The labeling applied alone to a labeled frame series and a transcript. *)

(* assignSpeakersToSegments(clusteredFeatures, featureVectors, chunks) *)
Label(clusteredFeatures, transcriptionChunks) ==
    /\ lpc = "idle"
    /\ lpc' = "done"
    /\ lClustered' = clusteredFeatures
    /\ lChunks' = transcriptionChunks
    /\ lLabeled' = AssignSpeakersToSegments(clusteredFeatures, transcriptionChunks)
    /\ UNCHANGED <<engineVars, mergeVars, kMeansVars, configVars, processorVars, laterVars>>

LabelDiscard ==
    /\ lpc = "done"
    /\ lpc' = "idle"
    /\ lClustered' = <<>>
    /\ lChunks' = <<>>
    /\ lLabeled' = <<>>
    /\ UNCHANGED <<engineVars, mergeVars, kMeansVars, configVars, processorVars, laterVars>>

NextLabel ==
    \/ \E series \in LabeledSeries, chunks \in LabelTranscripts : Label(series, chunks)
    \/ LabelDiscard

SpecLabel == Init /\ [][NextLabel]_vars

----------------------------------------------------------------------------
(* kMeansClustering called alone, one action for each round of its loop. *)

(* kMeansClustering(vectors, k): the code before the loop. *)
KMeansStart(vectors, k, randomIndex) ==
    /\ kpc = "idle"
    /\ kpc' = "loop"
    /\ kVectors' = vectors
    /\ kCount' = k
    /\ kCentroids' = [j \in 1..k |-> CentroidOf(vectors[randomIndex[j] + 1])]
    /\ kAssignments' = [i \in 1..Len(vectors) |-> -1]
    /\ kIterations' = 0
    /\ kChanged' = TRUE
    /\ UNCHANGED <<engineVars, mergeVars, labelVars, configVars, processorVars, laterVars>>

(* One round of the loop: step 1 assigns, step 2 recomputes. *)
KMeansRound ==
    /\ kpc = "loop"
    /\ LoopContinues(kChanged, kIterations)
    /\ kIterations' = kIterations + 1
    /\ kAssignments' = Assign(kVectors, kCentroids)
    /\ kChanged' = (kAssignments' # kAssignments)
    /\ kCentroids' = Recompute(kVectors, kAssignments', kCentroids)
    /\ UNCHANGED <<kpc, kVectors, kCount, engineVars, mergeVars, labelVars, configVars, processorVars, laterVars>>

(* The loop condition fails: return { centroids, assignments }. *)
KMeansReturn ==
    /\ kpc = "loop"
    /\ ~LoopContinues(kChanged, kIterations)
    /\ kpc' = "returned"
    /\ UNCHANGED <<kVectors, kCount, kCentroids, kAssignments, kIterations, kChanged,
                   engineVars, mergeVars, labelVars, configVars, processorVars, laterVars>>

KMeansDiscard ==
    /\ kpc = "returned"
    /\ kpc' = "idle"
    /\ kVectors' = <<>>
    /\ kCount' = 0
    /\ kCentroids' = <<>>
    /\ kAssignments' = <<>>
    /\ kIterations' = 0
    /\ kChanged' = FALSE
    /\ UNCHANGED <<engineVars, mergeVars, labelVars, configVars, processorVars, laterVars>>

NextKMeans ==
    \/ \E vectors \in KMeansVectors :
          \E k \in 1..Len(vectors) :
             \E randomIndex \in [1..k -> 0..(Len(vectors) - 1)] :
                KMeansStart(vectors, k, randomIndex)
    \/ KMeansRound
    \/ KMeansReturn
    \/ KMeansDiscard

SpecKMeans == Init /\ [][NextKMeans]_vars

(* The loop is synchronous code: once entered it runs on. *)
SpecKMeansFair ==
    SpecKMeans /\ WF_vars(KMeansRound) /\ WF_vars(KMeansReturn)

----------------------------------------------------------------------------
(* AudioProcessor: the recording session, its clock and the feature series *)
(*                                                                         *)
(* Times are kept in milliseconds, as Date.now() gives them: a recording   *)
(* time of t here is the JavaScript value t / 1000 (seconds).  An action   *)
(* is one task of the event loop: a call with the continuations that run   *)
(* in its microtasks, an extraction tick, the stop event, the settling of  *)
(* a database promise.  mediaRecorder.pause(), resume() and stop() throw   *)
(* an InvalidStateError on an inactive recorder.  One startRecording call  *)
(* at a time awaits the database.                                          *)

(* getCurrentRecordingTime: pauseTime *)
PauseTimeWithoutPending(paused, pauseTotal, pauseStart, clock) == pauseTotal
PauseTime(paused, pauseTotal, pauseStart, clock) ==
    IF paused THEN pauseTotal + (clock - pauseStart) ELSE pauseTotal

(* getCurrentRecordingTime() *)
GetCurrentRecordingTime(recording, paused, startTime, pauseTotal, pauseStart, clock) ==
    IF ~recording
    THEN 0
    ELSE clock - startTime - PauseTime(paused, pauseTotal, pauseStart, clock)

CurrentRecordingTime ==
    GetCurrentRecordingTime(isRecording, isPaused, recordingStartTime,
                            totalPauseDuration, pauseStartTime, now)

(* The stop handler's duration. *)
StopDuration(clock, startTime, pauseTotal) == clock - startTime - pauseTotal

(* The condition under which a tick pushes a frame. *)
TickAppendsWhilePaused(recording, paused) == recording
TickAppends(recording, paused) == recording /\ ~paused

(* The frame a tick pushes; recording is history: the recording under way. *)
FeatureFrame(time, recording) == [time |-> time, recording |-> recording]

(* resetAudioFeatures(): this.audioFeatures afterwards *)
AfterResetKept(series) == series
AfterReset(series) == <<>>

(* getAudioFeatures() *)
GetAudioFeatures(series) == series

(* startRecording up to its await. *)
StartCall ==
    IF isRecording
    THEN UNCHANGED sessionVars
    ELSE /\ starting' = starting + 1
         /\ UNCHANGED <<isRecording, isPaused, recordingStartTime, pauseStartTime,
                        totalPauseDuration, currentRecordingId, recorderState,
                        stopping, stopped, pausedTime>>

(* db.createRecording() resolved with a new id: startRecording goes on. *)
StartResumes ==
    /\ currentRecordingId' = currentRecordingId + 1
    /\ recorderState' = "recording"
    /\ recordingStartTime' = now
    /\ totalPauseDuration' = 0
    /\ isRecording' = TRUE
    /\ starting' = starting - 1
    /\ pausedTime' = 0
    /\ UNCHANGED <<isPaused, pauseStartTime, stopping, stopped>>

(* db.createRecording() rejected: startRecording returns null. *)
StartFails ==
    /\ starting' = starting - 1
    /\ UNCHANGED <<isRecording, isPaused, recordingStartTime, pauseStartTime,
                   totalPauseDuration, currentRecordingId, recorderState,
                   stopping, stopped, pausedTime>>

(* pauseRecording() *)
PauseThrows == isRecording /\ ~isPaused /\ recorderState = "inactive"
PauseCallUnguarded ==
    IF ~isRecording
    THEN UNCHANGED sessionVars
    ELSE /\ recorderState' = "paused"
         /\ isPaused' = TRUE
         /\ pauseStartTime' = now
         /\ UNCHANGED <<isRecording, recordingStartTime, totalPauseDuration,
                        currentRecordingId, starting, stopping, stopped, pausedTime>>
PauseCall ==
    IF ~isRecording \/ isPaused \/ PauseThrows
    THEN UNCHANGED sessionVars
    ELSE /\ recorderState' = "paused"
         /\ isPaused' = TRUE
         /\ pauseStartTime' = now
         /\ UNCHANGED <<isRecording, recordingStartTime, totalPauseDuration,
                        currentRecordingId, starting, stopping, stopped, pausedTime>>

(* resumeRecording() *)
ResumeThrows == isRecording /\ isPaused /\ recorderState = "inactive"
ResumeCall ==
    IF ~isRecording \/ ~isPaused \/ ResumeThrows
    THEN UNCHANGED sessionVars
    ELSE /\ recorderState' = "recording"
         /\ isPaused' = FALSE
         /\ totalPauseDuration' = totalPauseDuration + (now - pauseStartTime)
         /\ UNCHANGED <<isRecording, recordingStartTime, pauseStartTime,
                        currentRecordingId, starting, stopping, stopped, pausedTime>>

(* stopRecording(): the stop handler is set and the recorder stopped. *)
StopThrows == isRecording /\ recorderState = "inactive"
StopCall ==
    IF ~isRecording \/ StopThrows
    THEN UNCHANGED sessionVars
    ELSE /\ recorderState' = "inactive"
         /\ stopping' = "event"
         /\ UNCHANGED <<isRecording, isPaused, recordingStartTime, pauseStartTime,
                        totalPauseDuration, currentRecordingId, starting, stopped,
                        pausedTime>>

(* db.updateRecordingBlob() resolved: the stop handler goes on. *)
StopResumes ==
    /\ isRecording' = FALSE
    /\ isPaused' = FALSE
    /\ stopping' = "idle"
    /\ UNCHANGED <<recordingStartTime, pauseStartTime, totalPauseDuration,
                   currentRecordingId, recorderState, starting, stopped, pausedTime>>

(* At most MaxRecordings recordings are created, and startRecording is not *)
(* called while a call of it awaits the database.                          *)
MayStart == starting = 0 /\ (isRecording \/ currentRecordingId < MaxRecordings)

(* At most MaxRecordings recordings are created. *)
MayStartAgain == isRecording \/ currentRecordingId + starting < MaxRecordings

(* startRecording() is called. *)
StartRecording ==
    /\ MayStart
    /\ StartCall
    /\ ticked' = FALSE
    /\ UNCHANGED <<now, recordedFeatures, appVars, fluxVars, zcrVars, diarizationVars, laterVars>>

(* startRecording() is called, whether or not a call of it is awaiting. *)
StartRecordingAgain ==
    /\ MayStartAgain
    /\ StartCall
    /\ ticked' = FALSE
    /\ UNCHANGED <<now, recordedFeatures, appVars, fluxVars, zcrVars, diarizationVars, laterVars>>

StartRecordingResumes ==
    /\ starting > 0
    /\ StartResumes
    /\ ticked' = FALSE
    /\ UNCHANGED <<now, recordedFeatures, appVars, fluxVars, zcrVars, diarizationVars, laterVars>>

StartRecordingFails ==
    /\ starting > 0
    /\ StartFails
    /\ ticked' = FALSE
    /\ UNCHANGED <<now, recordedFeatures, appVars, fluxVars, zcrVars, diarizationVars, laterVars>>

PauseRecording ==
    /\ PauseCall
    /\ ticked' = FALSE
    /\ UNCHANGED <<now, recordedFeatures, appVars, fluxVars, zcrVars, diarizationVars, laterVars>>

ResumeRecording ==
    /\ ResumeCall
    /\ ticked' = FALSE
    /\ UNCHANGED <<now, recordedFeatures, appVars, fluxVars, zcrVars, diarizationVars, laterVars>>

StopRecording ==
    /\ StopCall
    /\ ticked' = FALSE
    /\ UNCHANGED <<now, recordedFeatures, appVars, fluxVars, zcrVars, diarizationVars, laterVars>>

(* The recorder's stop event: the handler up to its await.  unpaused is    *)
(* history: the clock time since the start that was not spent paused.      *)
OnStop ==
    /\ stopping = "event"
    /\ stopping' = "saving"
    /\ stopped' = <<[duration |-> StopDuration(now, recordingStartTime, totalPauseDuration),
                     unpaused |-> now - recordingStartTime - pausedTime]>>
    /\ ticked' = FALSE
    /\ UNCHANGED <<isRecording, isPaused, recordingStartTime, pauseStartTime,
                   totalPauseDuration, currentRecordingId, recorderState, starting,
                   pausedTime, now, recordedFeatures, appVars, fluxVars, zcrVars,
                   diarizationVars, laterVars>>

StopRecordingResumes ==
    /\ stopping = "saving"
    /\ StopResumes
    /\ ticked' = FALSE
    /\ UNCHANGED <<now, recordedFeatures, appVars, fluxVars, zcrVars, diarizationVars, laterVars>>

(* One run of extractFeatures, the animation-frame callback. *)
Tick ==
    /\ TickAppends(isRecording, isPaused) => Len(recordedFeatures) < MaxSeries
    /\ recordedFeatures' =
          IF TickAppends(isRecording, isPaused)
          THEN Append(recordedFeatures,
                      FeatureFrame(CurrentRecordingTime, currentRecordingId))
          ELSE recordedFeatures
    /\ ticked' = TRUE
    /\ UNCHANGED <<now, sessionVars, appVars, fluxVars, zcrVars, diarizationVars, laterVars>>

(* A millisecond passes; it is spent paused when a pause is under way and  *)
(* no stop has been asked for.                                             *)
AdvanceClock ==
    /\ now < MaxClock
    /\ now' = now + 1
    /\ pausedTime' = IF isRecording /\ isPaused /\ stopping = "idle"
                     THEN pausedTime + 1
                     ELSE pausedTime
    /\ ticked' = FALSE
    /\ UNCHANGED <<isRecording, isPaused, recordingStartTime, pauseStartTime,
                   totalPauseDuration, currentRecordingId, recorderState, starting,
                   stopping, stopped, recordedFeatures, appVars, fluxVars, zcrVars,
                   diarizationVars, laterVars>>

(* resetAudioFeatures() *)
ResetAudioFeatures ==
    /\ recordedFeatures # <<>>
    /\ recordedFeatures' = AfterReset(recordedFeatures)
    /\ ticked' = FALSE
    /\ UNCHANGED <<now, sessionVars, appVars, fluxVars, zcrVars, diarizationVars, laterVars>>

(* The processor's methods called in any order. *)
NextRecorder ==
    \/ StartRecording
    \/ StartRecordingResumes
    \/ StartRecordingFails
    \/ PauseRecording
    \/ ResumeRecording
    \/ StopRecording
    \/ OnStop
    \/ StopRecordingResumes
    \/ Tick
    \/ AdvanceClock
    \/ ResetAudioFeatures

SpecRecorder == Init /\ [][NextRecorder]_vars

(* Start requests that may overlap, with pauses, ticks and the clock. *)
NextStart ==
    \/ StartRecordingAgain
    \/ StartRecordingResumes
    \/ StartRecordingFails
    \/ PauseRecording
    \/ ResumeRecording
    \/ Tick
    \/ AdvanceClock

SpecStart == Init /\ [][NextStart]_vars

----------------------------------------------------------------------------
(* The application's recording flow (app.js) driving the processor. *)

(* The continuation of the application's startRecording after its await. *)
AppStarted ==
    /\ appIsRecording' = TRUE
    /\ appIsPaused' = FALSE
    /\ appRecordingId' = currentRecordingId'
    /\ recordedFeatures' = AfterReset(recordedFeatures)
    /\ UNCHANGED <<appFeatures, stopAwaited, jobs>>

(* One run of the application's stopRecording past its first await.       *)
(* recording is history: the recording that was stopped; steps is history: *)
(* what the run has done; savedAs is the id it gave to db.saveTranscript.  *)
NewJob(recordingId) ==
    [recording |-> recordingId,
     pc |-> "transcribing",
     steps |-> <<"stopped", "read", "transcribe">>,
     savedAs |-> <<>>]

(* The continuation of the application's stopRecording after its await:    *)
(* the series is read and speechRecognizer.transcribe() is called.         *)
AppStopped ==
    /\ appIsRecording' = FALSE
    /\ appIsPaused' = FALSE
    /\ appFeatures' = <<[recording |-> appRecordingId,
                         series |-> GetAudioFeatures(recordedFeatures)]>>
    /\ stopAwaited' = FALSE
    /\ jobs' = Append(jobs, NewJob(appRecordingId))
    /\ UNCHANGED appRecordingId

(* startRecording() of the application *)
AppStartRecording ==
    /\ ~appIsRecording
    /\ MayStart
    /\ StartCall
    /\ IF isRecording
       THEN AppStarted
       ELSE UNCHANGED <<recordedFeatures, appVars>>
    /\ ticked' = FALSE
    /\ UNCHANGED <<now, fluxVars, zcrVars, diarizationVars, laterVars>>

AppStartRecordingResumes ==
    /\ starting > 0
    /\ StartResumes
    /\ AppStarted
    /\ ticked' = FALSE
    /\ UNCHANGED <<now, fluxVars, zcrVars, diarizationVars, laterVars>>

(* The processor returned null: the application throws and catches. *)
AppStartRecordingFails ==
    /\ starting > 0
    /\ StartFails
    /\ ticked' = FALSE
    /\ UNCHANGED <<now, recordedFeatures, appVars, fluxVars, zcrVars, diarizationVars, laterVars>>

(* togglePauseRecording() *)
AppTogglePause ==
    /\ appIsRecording
    /\ IF appIsPaused
       THEN /\ ResumeCall
            /\ appIsPaused' = (appIsPaused /\ ResumeThrows)
       ELSE /\ PauseCall
            /\ appIsPaused' = ~PauseThrows
    /\ ticked' = FALSE
    /\ UNCHANGED <<appIsRecording, appRecordingId, appFeatures, stopAwaited, jobs, now,
                   recordedFeatures, fluxVars, zcrVars, diarizationVars, laterVars>>

(* stopRecording() of the application up to its await; with a processor    *)
(* that is not recording the await yields null and the code goes on.  A    *)
(* stop called again replaces the handler of a stop event still to come:   *)
(* the promise of the first call is then never resolved.                   *)
AppStopRecording ==
    /\ appIsRecording
    /\ StopCall
    /\ IF ~isRecording
       THEN AppStopped
       ELSE /\ stopAwaited' = IF StopThrows
                              THEN stopAwaited /\ stopping # "event"
                              ELSE TRUE
            /\ UNCHANGED <<appIsRecording, appIsPaused, appRecordingId, appFeatures,
                           jobs>>
    /\ ticked' = FALSE
    /\ UNCHANGED <<now, recordedFeatures, fluxVars, zcrVars, diarizationVars, laterVars>>

AppStopRecordingResumes ==
    /\ stopping = "saving"
    /\ StopResumes
    /\ IF stopAwaited THEN AppStopped ELSE UNCHANGED appVars
    /\ ticked' = FALSE
    /\ UNCHANGED <<now, recordedFeatures, fluxVars, zcrVars, diarizationVars, laterVars>>

NextApp ==
    \/ AppStartRecording
    \/ AppStartRecordingResumes
    \/ AppStartRecordingFails
    \/ AppTogglePause
    \/ AppStopRecording
    \/ OnStop
    \/ AppStopRecordingResumes
    \/ Tick
    \/ AdvanceClock

SpecApp == Init /\ [][NextApp]_vars

(* The catch block of the application's stopRecording: nothing is saved. *)
JobCatchSaves(job) ==
    [job EXCEPT !.pc = "saving", !.steps = Append(@, "save"),
                !.savedAs = <<job.recording>>]
JobCatch(job) == [job EXCEPT !.pc = "failed"]

(* speechRecognizer.transcribe() settled for the job j: on success         *)
(* diarization.processDiarization() is called.                             *)
JobTranscribed(j, resolved) ==
    /\ j \in 1..Len(jobs)
    /\ jobs[j].pc = "transcribing"
    /\ jobs' = [jobs EXCEPT ![j] =
                   IF resolved
                   THEN [@ EXCEPT !.pc = "diarizing",
                                  !.steps = @ \o <<"transcribed", "diarize">>]
                   ELSE JobCatch(@)]
    /\ ticked' = FALSE
    /\ UNCHANGED <<now, sessionVars, recordedFeatures, appIsRecording, appIsPaused,
                   appRecordingId, appFeatures, stopAwaited, fluxVars, zcrVars,
                   diarizationVars, laterVars>>

(* diarization.processDiarization() settled for the job j: on success      *)
(* db.saveTranscript(appState.currentRecordingId, ...) is called.          *)
JobDiarized(j, resolved) ==
    /\ j \in 1..Len(jobs)
    /\ jobs[j].pc = "diarizing"
    /\ jobs' = [jobs EXCEPT ![j] =
                   IF resolved
                   THEN [@ EXCEPT !.pc = "saving",
                                  !.steps = @ \o <<"diarized", "save">>,
                                  !.savedAs = <<appRecordingId>>]
                   ELSE JobCatch(@)]
    /\ ticked' = FALSE
    /\ UNCHANGED <<now, sessionVars, recordedFeatures, appIsRecording, appIsPaused,
                   appRecordingId, appFeatures, stopAwaited, fluxVars, zcrVars,
                   diarizationVars, laterVars>>

(* db.saveTranscript() resolved for the job j. *)
JobSaved(j) ==
    /\ j \in 1..Len(jobs)
    /\ jobs[j].pc = "saving"
    /\ jobs' = [jobs EXCEPT ![j].pc = "done", ![j].steps = Append(@, "saved")]
    /\ ticked' = FALSE
    /\ UNCHANGED <<now, sessionVars, recordedFeatures, appIsRecording, appIsPaused,
                   appRecordingId, appFeatures, stopAwaited, fluxVars, zcrVars,
                   diarizationVars, laterVars>>

(* The record, pause and stop buttons, and what follows a stop. *)
NextFlow ==
    \/ AppStartRecording
    \/ AppStartRecordingResumes
    \/ AppStartRecordingFails
    \/ AppTogglePause
    \/ AppStopRecording
    \/ OnStop
    \/ AppStopRecordingResumes
    \/ \E j \in 1..MaxRecordings, resolved \in BOOLEAN : JobTranscribed(j, resolved)
    \/ \E j \in 1..MaxRecordings, resolved \in BOOLEAN : JobDiarized(j, resolved)
    \/ \E j \in 1..MaxRecordings : JobSaved(j)

SpecFlow == Init /\ [][NextFlow]_vars

----------------------------------------------------------------------------
(* AudioProcessor: calculateSpectralFlux and calculateZeroCrossingRate     *)
(*                                                                         *)
(* A spectrum is a list of decibel values, one for each bin.  Magnitudes   *)
(* are in thousandths (10^(dB/20) is 1 at 0 dB, written 1000).  The flux   *)
(* is kept as its square, the sum under Math.sqrt, in millionths: the root *)
(* of a sum of squares of such magnitudes is not a fraction, and two       *)
(* fluxes are equal exactly when their squares are.  The zero-crossing     *)
(* rate is kept as the fraction count / length.                            *)

RECURSIVE Pow10(_)
Pow10(n) == IF n = 0 THEN 1 ELSE 10 * Pow10(n - 1)

(* Math.pow(10, dB / 20), in thousandths, for the decibel levels used. *)
Magnitude(dB) == Pow10((dB + 60) \div 20)

(* The sum of the loop: the squared bin-wise differences of magnitude. *)
SquaredDifference(freqData, previous) ==
    SumSeq([i \in 1..Len(freqData) |->
               (Magnitude(freqData[i]) - Magnitude(previous[i]))
                  * (Magnitude(freqData[i]) - Magnitude(previous[i]))])

(* new Float32Array(freqData.length): every bin is 0. *)
SeedSpectrumFromFrame(freqData) == freqData
SeedSpectrum(freqData) == [i \in 1..Len(freqData) |-> 0]

(* calculateSpectralFlux(freqData) with this.prevFreqData as given (the    *)
(* empty list when it is undefined): the value returned and                *)
(* this.prevFreqData afterwards.                                           *)
CalculateSpectralFlux(freqData, previous) ==
    IF previous = <<>>
    THEN [flux |-> 0, prevFreqData |-> <<SeedSpectrum(freqData)>>]
    ELSE [flux |-> SquaredDifference(freqData, previous[1]),
          prevFreqData |-> <<freqData>>]

(* The decibel levels of a bin, and the spectra of two bins. *)
DbLevels == {-40, -20, 0}
Spectra == {<<low, high>> : low \in DbLevels, high \in DbLevels}

(* extractAudioFeatures computes the flux of one more frame. *)
ExtractFlux(freqData) ==
    /\ Len(extracted) < MaxExtracts
    /\ LET call == CalculateSpectralFlux(freqData, prevFreqData)
       IN  /\ prevFreqData' = call.prevFreqData
           /\ extracted' = Append(extracted, [freqData |-> freqData, flux |-> call.flux])
    /\ UNCHANGED <<recorderVars, appVars, zcrVars, diarizationVars, laterVars>>

NextFlux ==
    \E freqData \in Spectra : ExtractFlux(freqData)

SpecFlux == Init /\ [][NextFlux]_vars

(* The test of the loop on one adjacent pair. *)
IsCrossingZeroNegative(previous, current) ==
    \/ previous <= 0 /\ current > 0
    \/ previous > 0 /\ current <= 0
IsCrossing(previous, current) ==
    \/ previous < 0 /\ current >= 0
    \/ previous >= 0 /\ current < 0

(* The for loop from index i (1-based here, so from the second sample). *)
RECURSIVE CountCrossings(_, _, _)
CountCrossings(samples, i, count) ==
    IF i > Len(samples)
    THEN count
    ELSE CountCrossings(samples, i + 1,
                        IF IsCrossing(samples[i - 1], samples[i])
                        THEN count + 1
                        ELSE count)

(* calculateZeroCrossingRate(timeData): count / timeData.length *)
CalculateZeroCrossingRate(samples) ==
    [count |-> CountCrossings(samples, 2, 0), length |-> Len(samples)]

(* Sample values, and the buffers of one to MaxSamples of them. *)
SampleValues == {-1, 0, 1}
Buffers == SeqsUpTo(SampleValues, MaxSamples) \ {<<>>}

(* calculateZeroCrossingRate applied alone. *)
ZeroCrossings(samples) ==
    /\ zpc = "idle"
    /\ zpc' = "done"
    /\ zTimeData' = samples
    /\ zeroCrossingRate' = CalculateZeroCrossingRate(samples)
    /\ UNCHANGED <<recorderVars, appVars, fluxVars, diarizationVars, laterVars>>

ZeroCrossingsDiscard ==
    /\ zpc = "done"
    /\ zpc' = "idle"
    /\ zTimeData' = <<>>
    /\ zeroCrossingRate' = NoRate
    /\ UNCHANGED <<recorderVars, appVars, fluxVars, diarizationVars, laterVars>>

NextZeroCrossings ==
    \/ \E samples \in Buffers : ZeroCrossings(samples)
    \/ ZeroCrossingsDiscard

SpecZeroCrossings == Init /\ [][NextZeroCrossings]_vars

----------------------------------------------------------------------------
(* Properties of processDiarization *)

InFlight(r) == runs[r].pc \in InFlightPcs
Accepted(r) == runs[r].pc \in InFlightPcs \cup {"hError"} \cup DonePcs

(* The run r is called in this step. *)
CallStep(r) ==
    /\ r \in FreeRuns
    /\ runs'[r].pc # "new"
    /\ runs'[r] # runs[r]

DidNoWork(run) ==
    /\ run.k = 0
    /\ run.featureVectors = <<>>
    /\ run.clusters = <<>>
    /\ run.labeledSegments = <<>>
    /\ run.result = NoResult

(* C1: at most one run is in flight at any time, and a call made while     *)
(* isProcessing is true fails with the busy error and has done no vector   *)
(* extraction, clustering, labeling or merging.                            *)
C1_OneRunInFlight ==
    /\ [](Cardinality({r \in Runs : InFlight(r)}) <= 1)
    /\ [][\A r \in Runs : (CallStep(r) /\ isProcessing) =>
              /\ runs'[r].pc = "busy"
              /\ runs'[r].thrown = <<[message |-> BusyError]>>
              /\ DidNoWork(runs'[r])]_vars

(* A call is rejected as busy while another run awaits its clustering. *)
C1_Witness ==
    \E r1, r2 \in Runs : runs[r1].pc = "await" /\ runs[r2].pc = "busy"

(* C2: a call rejected as busy changes no engine state (the flag stays     *)
(* set, the configuration, the call stack and every call that is not over  *)
(* are as before) and delivers no notification.                            *)
C2_BusyCallChangesNothing ==
    [][\A r \in Runs : (CallStep(r) /\ isProcessing) =>
          /\ isProcessing'
          /\ UNCHANGED <<maxSpeakers, mergeThreshold, handlers, stack, configVars, processorVars, laterVars>>
          /\ runs'[r].log = <<>>
          /\ \A r2 \in Runs \ {r} : r2 \notin FreeRuns => runs'[r2] = runs[r2]]_vars

(* A handler of the run in flight made the call that was rejected. *)
C2_Witness ==
    \E r1, r2 \in Runs :
        /\ stack # <<>> /\ Last(stack) = r1 /\ InFlight(r1)
        /\ runs[r2].pc = "busy"
        /\ isProcessing

IsDelivered(note) ==
    IF note.type = "error" THEN "error" \in handlers
    ELSE IF note.type = "progress" THEN "progress" \in handlers
    ELSE IF note.type = "complete" THEN "complete" \in handlers
    ELSE "start" \in handlers

(* What a notification says, without the message text. *)
Said(note) ==
    IF note.type = "progress" THEN [type |-> "progress", progress |-> note.progress]
    ELSE IF note.type = "complete" THEN [type |-> "complete", result |-> note.result]
    ELSE IF note.type = "error" THEN [type |-> "error", phase |-> note.phase]
    ELSE [type |-> "start"]

SuccessSequence(result) ==
    << [type |-> "start"],
       [type |-> "progress", progress |-> 10],
       [type |-> "progress", progress |-> 30],
       [type |-> "progress", progress |-> 60],
       [type |-> "progress", progress |-> 80],
       [type |-> "progress", progress |-> 100],
       [type |-> "complete", result |-> result] >>

(* C3: a run that succeeds has emitted start, progress 10, 30, 60, 80,     *)
(* 100 and complete with the result, each once and in this order; the      *)
(* handlers see those of them whose callback slot is set.                  *)
C3_SuccessSequence ==
    \A r \in Runs : runs[r].pc = "returned" =>
        [i \in 1..Len(runs[r].log) |-> Said(runs[r].log[i])]
            = SelectSeq(SuccessSequence(runs[r].result), IsDelivered)

(* A run with no active frame succeeds with every slot set. *)
C3_Witness ==
    \E r \in Runs :
        /\ runs[r].pc = "returned"
        /\ handlers = Slots
        /\ Len(runs[r].log) = 7
        /\ runs[r].audioFeatures # <<>>
        /\ runs[r].clusters = <<>>

IsProgress(note) == note.type = "progress"
ProgressValues(log) ==
    LET p == SelectSeq(log, IsProgress) IN [i \in 1..Len(p) |-> p[i].progress]

Milestones == <<10, 30, 60, 80, 100>>

(* C4: in every accepted run, failing ones included, the progress values   *)
(* emitted so far are a prefix of 10, 30, 60, 80, 100, and nothing follows *)
(* the run's error notification.                                           *)
C4_ProgressPrefix ==
    \A r \in Runs :
        LET log == runs[r].log
            values == ProgressValues(log)
        IN  /\ Len(values) <= Len(Milestones)
            /\ values = SubSeq(Milestones, 1, Len(values))
            /\ \A i \in 1..Len(log) : log[i].type = "error" => i = Len(log)

(* A run fails in labeling after three progress notifications. *)
C4_Witness ==
    \E r \in Runs :
        /\ runs[r].pc = "raised"
        /\ ProgressValues(runs[r].log) = <<10, 30, 60>>
        /\ Last(runs[r].log).type = "error"

(* C5: when a step of an accepted run throws, an error notification with   *)
(* phase "diarization" is emitted, the same failure reaches the caller,    *)
(* and the run returns no result.                                          *)
C5_FailurePropagated ==
    \A r \in Runs :
        /\ runs[r].pc = "raised" =>
              /\ runs[r].thrown = runs[r].error
              /\ "error" \in handlers =>
                    /\ runs[r].log # <<>>
                    /\ Said(Last(runs[r].log)) = [type |-> "error", phase |-> "diarization"]
        /\ runs[r].pc = "returned" => runs[r].error = <<>>

(* C6 as stated: isProcessing is false whenever an accepted run returns or *)
(* raises.                                                                 *)
C6_FlagClearAtExit ==
    \A r \in Runs : runs[r].pc \in DonePcs => ~runs[r].exitFlag

(* C6, amended: a run that returns leaves isProcessing false, a run that   *)
(* raises leaves it false unless a call made by its error handler was      *)
(* accepted, and isProcessing is true only while an accepted run is in     *)
(* flight.                                                                 *)
C6_NotLeftBusy ==
    /\ \A r \in Runs :
          /\ runs[r].pc = "returned" => ~runs[r].exitFlag
          /\ (runs[r].pc = "raised" /\ runs[r].exitFlag) => runs[r].reentered
    /\ isProcessing => \E r \in Runs : InFlight(r)

(* A run whose progress handler threw has raised and the engine is free. *)
C6_Witness ==
    \E r \in Runs :
        /\ runs[r].pc = "raised"
        /\ runs[r].thrown = <<[message |-> "handler failed"]>>
        /\ ~runs[r].exitFlag
        /\ ~isProcessing

----------------------------------------------------------------------------
(* Properties of the clustering and the merge pass *)

SpeakersOf(segments) == {segments[i].speaker : i \in 1..Len(segments)} \ {Unknown}

ActiveFrames(run) == Len(ActiveVectors(run.featureVectors))

(* C7: a run that returns has no more distinct speaker labels other than   *)
(* "Unknown" than the maximum speaker count it read when it clustered, and *)
(* no more than it had active frames; this for the labeled segments, the   *)
(* result's segments and the result's speaker list.                        *)
C7_SpeakersWithinMaximum ==
    \A r \in Runs : runs[r].pc = "returned" =>
        LET run == runs[r]
            limit == Min(run.k, ActiveFrames(run))
        IN  /\ run.k \in MinSpeakers..SpeakerCap
            /\ Cardinality(SpeakersOf(run.labeledSegments)) <= limit
            /\ Cardinality(SpeakersOf(run.result.segments)) <= limit
            /\ Len(run.result.speakers) <= limit

(* Two different voices under a maximum of one speaker: every chunk that   *)
(* holds a voice is labeled "A".                                           *)
C7_Witness ==
    \E r \in Runs :
        /\ runs[r].pc = "returned"
        /\ runs[r].k = 1
        /\ \E i, j \in 1..Len(runs[r].featureVectors) :
              /\ IsActive(runs[r].featureVectors[i])
              /\ IsActive(runs[r].featureVectors[j])
              /\ runs[r].featureVectors[i].vector # runs[r].featureVectors[j].vector
        /\ Len(runs[r].labeledSegments) >= 2
        /\ runs[r].result.speakers = <<"A">>

Merged == mpc = "done"

(* The texts of the segments first..last, joined by single spaces. *)
RECURSIVE JoinTexts(_, _, _)
JoinTexts(segments, first, last) ==
    IF first = last
    THEN segments[first].text
    ELSE JoinTexts(segments, first, last - 1) \o " " \o segments[last].text

(* The list that has one segment for each contiguous run of segments, a    *)
(* new run starting at the first segment and at every index in cuts.       *)
Grouping(segments, cuts) ==
    LET n == Len(segments)
        starts == IF n = 0 THEN {} ELSE {1} \cup cuts
        FirstOf(g) == CHOOSE i \in starts : Cardinality({j \in starts : j <= i}) = g
        LastOf(g) == CHOOSE i \in FirstOf(g)..n :
                        /\ \A j \in (FirstOf(g) + 1)..i : j \notin starts
                        /\ i = n \/ (i + 1) \in starts
    IN  [g \in 1..Cardinality(starts) |->
            [text |-> JoinTexts(segments, FirstOf(g), LastOf(g)),
             start |-> segments[FirstOf(g)].start,
             end |-> segments[LastOf(g)].end,
             speaker |-> segments[FirstOf(g)].speaker]]

(* The merge rule at the segment i > 1.  The kept segment before it holds  *)
(* segment i - 1 as its last part, so that its speaker and its end, as     *)
(* extended so far, are those of segment i - 1.                            *)
MergeRule(segments, i, threshold) ==
    /\ segments[i].speaker = segments[i - 1].speaker
    /\ segments[i].start - segments[i - 1].end <= threshold

(* C8: the output of the merge pass partitions the labeled chunks in       *)
(* order into contiguous runs; each output segment has the speaker all     *)
(* chunks of its run were labeled with, the start of the first, the end of *)
(* the last and their texts joined by single spaces, and no run could be   *)
(* extended by the merge rule.                                             *)
C8_SegmentsPartitionChunks ==
    Merged =>
        \E cuts \in SUBSET (2..Len(mSegments)) :
            /\ mResult = Grouping(mSegments, cuts)
            /\ \A i \in 2..Len(mSegments) :
                  /\ i \notin cuts => mSegments[i].speaker = mSegments[i - 1].speaker
                  /\ i \in cuts => ~MergeRule(mSegments, i, mergeThreshold)

(* Three chunks give two segments, the first of them merged from two. *)
C8_Witness ==
    /\ Merged
    /\ Len(mSegments) = 3
    /\ Len(mResult) = 2
    /\ mResult[1].text = "hello world"
    /\ mResult[1].end = mSegments[2].end
    /\ mResult[2] = mSegments[3]

Ordered(segments) ==
    \A i, j \in 1..Len(segments) : i < j => segments[i].start <= segments[j].start

NonOverlapping(segments) ==
    \A i, j \in 1..Len(segments) : i < j => segments[i].end <= segments[j].start

(* C9: when the chunks are ordered by start time and pairwise              *)
(* non-overlapping, so are the segments the merge pass returns.            *)
C9_OrderPreserved ==
    (Merged /\ Ordered(mSegments) /\ NonOverlapping(mSegments)) =>
        (Ordered(mResult) /\ NonOverlapping(mResult))

(* Ordered, non-overlapping chunks of which some merged and some did not. *)
C9_Witness ==
    /\ Merged
    /\ Ordered(mSegments) /\ NonOverlapping(mSegments)
    /\ Len(mSegments) = 3
    /\ Len(mResult) = 2
    /\ mResult[1].end > mSegments[1].end

(* C10: a segment is merged into the kept segment before it exactly when   *)
(* it has that segment's speaker and starts no more than mergeThreshold    *)
(* after that segment's current end, a gap equal to the threshold          *)
(* included; every other segment starts a new kept segment.                *)
C10_MergeRule ==
    Merged =>
        mResult = Grouping(mSegments,
                           {i \in 2..Len(mSegments) :
                               ~MergeRule(mSegments, i, mergeThreshold)})

(* Chunks [0, 1] "hello" and [1.2, 2] "world" of speaker A, the gap equal  *)
(* to the threshold: one segment [0, 2] "hello world".                     *)
C10_Witness ==
    /\ Merged
    /\ mergeThreshold = 2
    /\ mSegments = << [text |-> "hello", start |-> 0, end |-> 10, speaker |-> "A"],
                      [text |-> "world", start |-> 12, end |-> 20, speaker |-> "A"] >>
    /\ mResult = << [text |-> "hello world", start |-> 0, end |-> 20, speaker |-> "A"] >>

----------------------------------------------------------------------------
(* Further properties of the merge pass *)

MergedAgain == mpc = "again"

(* C11: the merge pass applied to its own output returns a list equal to   *)
(* that output: mSegments is what the first pass returned, mResult what    *)
(* the second pass made of it.                                             *)
C11_MergeIdempotent ==
    MergedAgain => mResult = mSegments

(* The first pass merged two of three chunks of one speaker and kept the   *)
(* third apart; the second pass ran on that.                               *)
C11_Witness ==
    /\ MergedAgain
    /\ Len(mSegments) = 2
    /\ \E i \in 1..2 : mSegments[i].text = "hello world"
    /\ mSegments[1].speaker = mSegments[2].speaker

----------------------------------------------------------------------------
(* Properties of the labeling *)

Labeled == lpc = "done"

(* The frames of the series in the chunk's range with the cluster id c. *)
FramesOf(series, chunk, c) ==
    {f \in RelevantFeatures(series, chunk.timestamp[1], chunk.timestamp[2]) :
        series[f].cluster = c}

(* The cluster ids 0 and up that some frame in the chunk's range has. *)
IdsIn(series, chunk) ==
    {series[f].cluster :
        f \in RelevantFeatures(series, chunk.timestamp[1], chunk.timestamp[2])} \ {-1}

(* C12: a chunk's speaker is the letter of the cluster id with the highest *)
(* count among the frames of its range that have an id of 0 or more, the   *)
(* lowest id among those that share the highest count, and "Unknown" when  *)
(* there is none; two chunks with the same counts get the same speaker.    *)
C12_DominantCluster ==
    Labeled =>
        /\ \A i \in 1..Len(lChunks) :
              LET ids == IdsIn(lClustered, lChunks[i])
                  count(c) == Cardinality(FramesOf(lClustered, lChunks[i], c))
              IN  IF ids = {}
                  THEN lLabeled[i].speaker = Unknown
                  ELSE \E c \in ids :
                          /\ \A c2 \in ids : count(c2) <= count(c)
                          /\ \A c2 \in ids : count(c2) = count(c) => c <= c2
                          /\ lLabeled[i].speaker = Letters[c + 1]
        /\ \A i, j \in 1..Len(lChunks) :
              (\A c \in LabelClusters :
                  Cardinality(FramesOf(lClustered, lChunks[i], c))
                      = Cardinality(FramesOf(lClustered, lChunks[j], c)))
                  => lLabeled[i].speaker = lLabeled[j].speaker

(* A tie: the chunk's range holds one frame of cluster 1, recorded first,  *)
(* and one of cluster 0; the chunk is labeled "A".                         *)
C12_Witness ==
    /\ Labeled
    /\ Len(lChunks) >= 1
    /\ Len(lClustered) >= 2
    /\ lClustered[1].cluster = 1
    /\ Cardinality(FramesOf(lClustered, lChunks[1], 0)) = 1
    /\ Cardinality(FramesOf(lClustered, lChunks[1], 1)) = 1
    /\ lClustered[1].time >= lChunks[1].timestamp[1]
    /\ lLabeled[1].speaker = "A"

(* C13: labeling returns one segment for each chunk, in the chunks' order, *)
(* with the chunk's start, end and text; the frames counted for a chunk    *)
(* are those with start <= time <= end: the segment's speaker is a letter  *)
(* exactly when such a frame has a cluster id of 0 or more, and then the   *)
(* letter of the id of such a frame.                                       *)
C13_OneSegmentPerChunk ==
    Labeled =>
        /\ Len(lLabeled) = Len(lChunks)
        /\ \A i \in 1..Len(lChunks) :
              LET startTime == lChunks[i].timestamp[1]
                  endTime == lChunks[i].timestamp[2]
                  counted == {f \in 1..Len(lClustered) :
                                 /\ startTime <= lClustered[f].time
                                 /\ lClustered[f].time <= endTime
                                 /\ lClustered[f].cluster >= 0}
              IN  /\ lLabeled[i].text = lChunks[i].text
                  /\ lLabeled[i].start = startTime
                  /\ lLabeled[i].end = endTime
                  /\ DOMAIN lLabeled[i] = {"text", "start", "end", "speaker"}
                  /\ (counted = {}) <=> (lLabeled[i].speaker = Unknown)
                  /\ counted # {} =>
                        \E f \in counted :
                            lLabeled[i].speaker = Letters[lClustered[f].cluster + 1]

(* The only frame with a cluster id of 0 or more is on the boundary the    *)
(* two chunks share: it counts for both.                                   *)
C13_Witness ==
    /\ Labeled
    /\ lChunks = <<Chunk("hello", 0, 10), Chunk("world", 10, 20)>>
    /\ \E f \in 1..Len(lClustered) :
          /\ lClustered[f].time = 10
          /\ lClustered[f].cluster = 1
          /\ \A g \in 1..Len(lClustered) : g # f => lClustered[g].cluster = -1
    /\ lLabeled[1].speaker = "B"
    /\ lLabeled[2].speaker = "B"

----------------------------------------------------------------------------
(* Properties of the pipeline on silent and single-speaker inputs *)

(* The run has called the clustering. *)
Clustered(run) == run.k # 0

AllUnknown(segments) == \A i \in 1..Len(segments) : segments[i].speaker = Unknown

(* C14: a run whose feature history has no active frame does not fail;     *)
(* its labeled series is empty, and when it has returned every chunk and   *)
(* every segment of the result is labeled "Unknown" and the result's       *)
(* speaker list is empty.                                                  *)
C14_NoActiveFrames ==
    \A r \in Runs :
        LET run == runs[r]
        IN  (Clustered(run) /\ ActiveFrames(run) = 0) =>
                /\ run.pc \in {"await", "returned"}
                /\ run.error = <<>>
                /\ run.clusters = <<>>
                /\ run.pc = "returned" =>
                      /\ Len(run.labeledSegments) = Len(run.transcription.chunks)
                      /\ AllUnknown(run.labeledSegments)
                      /\ AllUnknown(run.result.segments)
                      /\ run.result.speakers = <<>>

(* A history of silent frames, one of them exactly at the threshold, and a *)
(* transcript of several chunks: the run returned one "Unknown" segment.   *)
C14_Witness ==
    \E r \in Runs :
        /\ runs[r].pc = "returned"
        /\ Len(runs[r].featureVectors) >= 2
        /\ \E i \in 1..Len(runs[r].featureVectors) :
              runs[r].featureVectors[i].vector[2] = SilenceThreshold
        /\ ActiveFrames(runs[r]) = 0
        /\ Len(runs[r].labeledSegments) >= 2
        /\ Len(runs[r].result.segments) = 1
        /\ runs[r].result.segments[1].speaker = Unknown

IsSilent(v) == v.vector[2] <= SilenceThreshold

(* C16 as stated: a frame whose scaled RMS is <= 0.1 is not handed to      *)
(* k-means and has cluster id -1 in the labeled series.                    *)
C16_SilentFramesLabeled ==
    \A r \in Runs :
        LET run == runs[r]
        IN  Clustered(run) =>
                \A i \in 1..Len(run.featureVectors) :
                    IsSilent(run.featureVectors[i]) =>
                        /\ run.featureVectors[i].vector \notin Range(run.kMeansInput)
                        /\ i \in DOMAIN run.clusters
                        /\ run.clusters[i].cluster = -1

(* C16, amended: a frame whose scaled RMS is <= 0.1, exactly 0.1 included, *)
(* is not handed to k-means; when the history has an active frame the      *)
(* labeled series has one entry per frame and the silent frame's entry has *)
(* cluster id -1 (an active frame's has an id of 0 or more); when the      *)
(* history has no active frame the labeled series is empty.                *)
C16_SilentFramesExcluded ==
    \A r \in Runs :
        LET run == runs[r]
        IN  Clustered(run) =>
                /\ \A i \in 1..Len(run.featureVectors) :
                      IsSilent(run.featureVectors[i]) =>
                          run.featureVectors[i].vector \notin Range(run.kMeansInput)
                /\ Len(run.kMeansInput) = ActiveFrames(run)
                /\ IF ActiveFrames(run) = 0
                   THEN run.clusters = <<>>
                   ELSE /\ Len(run.clusters) = Len(run.featureVectors)
                        /\ \A i \in 1..Len(run.featureVectors) :
                              IsSilent(run.featureVectors[i])
                                  <=> (run.clusters[i].cluster = -1)

(* A frame exactly at the threshold next to an active frame. *)
C16_Witness ==
    \E r \in Runs :
        /\ Clustered(runs[r])
        /\ Len(runs[r].clusters) = Len(runs[r].featureVectors)
        /\ \E i, j \in 1..Len(runs[r].featureVectors) :
              /\ runs[r].featureVectors[i].vector[2] = SilenceThreshold
              /\ runs[r].clusters[i].cluster = -1
              /\ runs[r].clusters[j].cluster >= 0
        /\ Len(runs[r].kMeansInput) = 1

(* The chunk's range holds an active frame of the run. *)
HasActiveFrame(run, chunk) ==
    \E i \in 1..Len(run.featureVectors) :
        /\ IsActive(run.featureVectors[i])
        /\ chunk.timestamp[1] <= run.featureVectors[i].time
        /\ run.featureVectors[i].time <= chunk.timestamp[2]

(* C20: in a run that clustered with a maximum speaker count of 1, every   *)
(* chunk whose range holds an active frame is labeled "A", and the labeled *)
(* segments, the result's segments and the result's speaker list hold no   *)
(* label other than "A" and "Unknown".                                     *)
C20_SingleSpeaker ==
    \A r \in Runs :
        LET run == runs[r]
        IN  (run.pc = "returned" /\ run.k = 1) =>
                /\ \A i \in 1..Len(run.labeledSegments) :
                      /\ run.labeledSegments[i].speaker \in {"A", Unknown}
                      /\ HasActiveFrame(run, run.transcription.chunks[i])
                            => run.labeledSegments[i].speaker = "A"
                /\ \A i \in 1..Len(run.result.segments) :
                      run.result.segments[i].speaker \in {"A", Unknown}
                /\ Range(run.result.speakers) \subseteq {"A"}

(* Two different voices and a silent frame under a maximum of one speaker: *)
(* the chunks of the voices are merged into one segment of "A".            *)
C20_Witness ==
    \E r \in Runs :
        /\ runs[r].pc = "returned"
        /\ runs[r].k = 1
        /\ Len(runs[r].kMeansInput) = 2
        /\ runs[r].kMeansInput[1] # runs[r].kMeansInput[2]
        /\ Len(runs[r].labeledSegments) = 3
        /\ \E i \in 1..3 : runs[r].labeledSegments[i].speaker = Unknown
        /\ \E i \in 1..Len(runs[r].result.segments) :
              /\ runs[r].result.segments[i].speaker = "A"
              /\ runs[r].result.segments[i].text = "hello world"

----------------------------------------------------------------------------
(* Properties of runs on degenerate transcripts *)

HasErrorNote(log) == \E i \in 1..Len(log) : log[i].type = "error"

(* C15: a run on a transcript with no chunk fails only if one of its       *)
(* notification handlers throws; when it returns, the result has no        *)
(* segment and no speaker and no error notification was emitted.  A run on *)
(* a transcript with one chunk returns the one labeled segment as the      *)
(* merge pass received it.                                                 *)
C15_DegenerateInputs ==
    \A r \in Runs :
        LET run == runs[r]
            chunks == run.transcription.chunks
        IN  /\ (run.transcription.hasChunks /\ chunks = <<>>
                    /\ ~ExtractThrows(run.audioFeatures)) =>
                  /\ run.error # <<>> => run.error[1].message \in HandlerErrors
                  /\ run.pc = "returned" =>
                        /\ run.result.segments = <<>>
                        /\ run.result.speakers = <<>>
                        /\ ~HasErrorNote(run.log)
            /\ (run.pc = "returned" /\ Len(chunks) = 1) =>
                  /\ Len(run.labeledSegments) = 1
                  /\ run.result.segments = run.labeledSegments

(* A run on a transcript with no chunk returned with every callback set:   *)
(* the seven notifications of a success were delivered.                    *)
C15_Witness ==
    \E r \in Runs :
        /\ runs[r].pc = "returned"
        /\ runs[r].transcription = Transcription("", <<>>)
        /\ runs[r].clusters # <<>>
        /\ runs[r].result = [text |-> "", segments |-> <<>>, speakers |-> <<>>]
        /\ handlers = Slots
        /\ Len(runs[r].log) = 7

----------------------------------------------------------------------------
(* Properties of kMeansClustering *)

KMeansReturned == kpc = "returned"

(* What the loop in one piece, as the pipeline uses it, returns for some   *)
(* draw of the initial centroids.                                          *)
KMeansAgrees ==
    KMeansReturned =>
        \E randomIndex \in [1..kCount -> 0..(Len(kVectors) - 1)] :
            LET kMeans == KMeansClustering(kVectors, kCount, randomIndex)
            IN  /\ kMeans.centroids = kCentroids
                /\ kMeans.assignments = kAssignments
                /\ kMeans.iterations = kIterations

(* C17: when k-means returns, there are k centroids and every vector has   *)
(* one assignment, a cluster id in 0..k-1.                                 *)
C17_AssignmentsInRange ==
    KMeansReturned =>
        /\ Len(kCentroids) = kCount
        /\ DOMAIN kAssignments = 1..Len(kVectors)
        /\ \A i \in 1..Len(kVectors) : kAssignments[i] \in 0..(kCount - 1)

(* Three vectors, k = 3, two initial centroids copies of one vector: the   *)
(* highest cluster id is in use and one cluster is empty.                  *)
C17_Witness ==
    /\ KMeansReturned
    /\ Len(kVectors) = 3
    /\ kCount = 3
    /\ \E i \in 1..3 : kAssignments[i] = 2
    /\ \E c \in 0..2 : Members(kAssignments, c) = {}

(* A round of the loop is taken in this step. *)
RoundStep == kpc = "loop" /\ kIterations' = kIterations + 1

ComponentSum(vectors, members, d) ==
    SumSeq([i \in 1..Len(vectors) |-> IF i \in members THEN vectors[i][d] ELSE 0])

(* C19: a round assigns each vector to a centroid no other centroid is     *)
(* nearer than, the lowest such index; after it a centroid with no vector  *)
(* is what it was before the round, and a centroid with vectors is at      *)
(* their component-wise mean.                                              *)
C19_RoundRule ==
    [][RoundStep =>
          /\ \A i \in 1..Len(kVectors) :
                LET j == kAssignments'[i]
                IN  /\ \A j2 \in 0..(kCount - 1) :
                          ~DistanceLess(kVectors[i], kCentroids[j2 + 1], kCentroids[j + 1])
                    /\ \A j2 \in 0..(j - 1) :
                          DistanceLess(kVectors[i], kCentroids[j + 1], kCentroids[j2 + 1])
          /\ \A j \in 0..(kCount - 1) :
                LET members == Members(kAssignments', j)
                    after == kCentroids'[j + 1]
                IN  IF members = {}
                    THEN after = kCentroids[j + 1]
                    ELSE \A d \in 1..Len(kVectors[1]) :
                            after.sum[d] * Cardinality(members)
                                = after.n * ComponentSum(kVectors, members, d)]_vars

(* After a round from two initial centroids at the same place: the first   *)
(* took the vectors both were nearest to, two different vectors that it is *)
(* now the mean of, and the second, with no vector, is where it was.       *)
C19_Witness ==
    /\ kpc = "loop"
    /\ kIterations = 1
    /\ kCount >= 2
    /\ Cardinality(Members(kAssignments, 0)) >= 2
    /\ Members(kAssignments, 1) = {}
    /\ kCentroids[1].n >= 2
    /\ \E i, i2 \in Members(kAssignments, 0) : kVectors[i] # kVectors[i2]
    /\ kCentroids[2].sum \in Range(kVectors)

----------------------------------------------------------------------------
(* C21: after any sequence of setMaxSpeakers calls with integer arguments  *)
(* maxSpeakers is in 1..10, and it is what the last call's argument        *)
(* becomes: 1 for an argument below 1, 10 for one above 10, the argument   *)
(* itself inside the range.                                                *)
C21_MaxSpeakersClamped ==
    /\ maxSpeakers \in 1..10
    /\ speakerCalls # <<>> =>
          LET count == Last(speakerCalls)
          IN  /\ count < 1 => maxSpeakers = 1
              /\ count > 10 => maxSpeakers = 10
              /\ count \in 1..10 => maxSpeakers = count

(* Two calls were made, the first kept and the second clamped from above. *)
C21_Witness ==
    /\ Len(speakerCalls) = 2
    /\ speakerCalls[1] \in 1..10
    /\ speakerCalls[2] > 10
    /\ maxSpeakers = 10

----------------------------------------------------------------------------
(* The place of a letter in ascending code-unit order. *)
LetterIndex(label) == CHOOSE i \in 1..Len(Letters) : Letters[i] = label

(* C22: the speakers list of a returned run holds exactly the labels of    *)
(* the result's segments other than "Unknown", each once, in ascending     *)
(* order; a chunk whose range holds no active frame is labeled "Unknown",  *)
(* and "Unknown" is never in the speakers list.                            *)
C22_SpeakersList ==
    \A r \in Runs :
        LET run == runs[r]
            speakers == run.result.speakers
            segments == run.result.segments
        IN  run.pc = "returned" =>
                /\ Range(speakers) =
                      {segments[i].speaker : i \in 1..Len(segments)} \ {"Unknown"}
                /\ \A i, j \in 1..Len(speakers) :
                      i < j => LetterIndex(speakers[i]) < LetterIndex(speakers[j])
                /\ \A c \in 1..Len(run.labeledSegments) :
                      ~HasActiveFrame(run, run.transcription.chunks[c])
                         => run.labeledSegments[c].speaker = "Unknown"

(* The first segment is of speaker B, a later one of speaker A, and one    *)
(* chunk held no active frame: the list is A, B.                           *)
C22_Witness ==
    \E r \in Runs :
        LET run == runs[r]
        IN  /\ run.pc = "returned"
            /\ run.result.speakers = <<"A", "B">>
            /\ run.result.segments[1].speaker = "B"
            /\ \E i \in 1..Len(run.result.segments) :
                  run.result.segments[i].speaker = "Unknown"
            /\ \E c \in 1..Len(run.labeledSegments) :
                  ~HasActiveFrame(run, run.transcription.chunks[c])

----------------------------------------------------------------------------
(* Properties of the recording session *)

(* C23: a step that lengthens the feature series is an extraction tick     *)
(* taken while recording and not paused, and a tick taken while idle or    *)
(* paused leaves the series as it was.                                     *)
C23_FramesOnlyWhileRecording ==
    [][ /\ Len(recordedFeatures') > Len(recordedFeatures)
              => (ticked' /\ isRecording /\ ~isPaused)
        /\ (ticked' /\ (~isRecording \/ isPaused))
              => recordedFeatures' = recordedFeatures ]_vars

(* A tick was taken during a pause that lasted some time, after a frame    *)
(* had been appended: the series still has that one frame.                 *)
C23_Witness ==
    /\ ticked
    /\ isRecording
    /\ isPaused
    /\ now > pauseStartTime
    /\ Len(recordedFeatures) = 1

(* C24: between two states of one recording the elapsed time does not     *)
(* decrease, and it is the same across any step that begins, continues or  *)
(* ends a pause; the frames of one recording carry non-decreasing times in *)
(* append order.                                                           *)
C24_ElapsedTimeMonotone ==
    /\ [][ (isRecording /\ isRecording' /\ currentRecordingId' = currentRecordingId)
              => /\ CurrentRecordingTime' >= CurrentRecordingTime
                 /\ (isPaused \/ isPaused')
                       => CurrentRecordingTime' = CurrentRecordingTime ]_vars
    /\ [](\A i, j \in 1..Len(recordedFeatures) :
             (i < j /\ recordedFeatures[i].recording = recordedFeatures[j].recording)
                => recordedFeatures[i].time <= recordedFeatures[j].time)

(* Two frames of one recording, a completed pause between them: the second *)
(* frame's time is later than the first's and excludes the pause.          *)
C24_Witness ==
    /\ isRecording
    /\ ~isPaused
    /\ totalPauseDuration > 0
    /\ Len(recordedFeatures) = 2
    /\ recordedFeatures[1].recording = currentRecordingId
    /\ recordedFeatures[2].recording = currentRecordingId
    /\ recordedFeatures[1].time < recordedFeatures[2].time
    /\ recordedFeatures[2].time = now - recordingStartTime - totalPauseDuration

(* C25: the duration the stop handler computes is the clock time since the *)
(* recording's start that was not spent paused, whether or not the         *)
(* recording was paused when it was stopped.                               *)
C25_DurationExcludesPauses ==
    \A i \in 1..Len(stopped) : stopped[i].duration = stopped[i].unpaused

(* C26: resetAudioFeatures followed by getAudioFeatures gives the empty    *)
(* series whatever the series held, and the series the application reads   *)
(* after a stop holds frames of the recording it started last only.        *)
C26_ResetGivesEmptySeries ==
    /\ GetAudioFeatures(AfterReset(recordedFeatures)) = <<>>
    /\ \A i \in 1..Len(appFeatures) :
          \A j \in 1..Len(appFeatures[i].series) :
             appFeatures[i].series[j].recording = appFeatures[i].recording

(* The second recording has stopped and the application has read its       *)
(* frames.                                                                 *)
C26_Witness ==
    /\ appFeatures # <<>>
    /\ appFeatures[1].recording = 2
    /\ appFeatures[1].series # <<>>
    /\ ~appIsRecording
    /\ ~isRecording

----------------------------------------------------------------------------
(* Properties of the spectral flux and of the zero-crossing rate *)

(* C27: the first flux computed is 0, and after it the history holds a     *)
(* spectrum with 0 in every bin.                                           *)
C27_FirstFluxIsZero ==
    /\ Len(extracted) >= 1 => extracted[1].flux = 0
    /\ Len(extracted) = 1 =>
          /\ Len(prevFreqData) = 1
          /\ Len(prevFreqData[1]) = Len(extracted[1].freqData)
          /\ \A i \in 1..Len(prevFreqData[1]) : prevFreqData[1][i] = 0

(* One frame whose spectrum is not the zero spectrum has been extracted. *)
C27_Witness ==
    /\ Len(extracted) = 1
    /\ \A i \in 1..Len(extracted[1].freqData) : extracted[1].freqData[i] # 0
    /\ prevFreqData # <<>>

(* C28: the flux of every frame after the first is the difference between *)
(* its spectrum and the spectrum of the frame extracted just before it,    *)
(* and the history afterwards holds the spectrum of the last frame.        *)
C28_FluxAgainstPrecedingFrame ==
    /\ \A i \in 2..Len(extracted) :
          extracted[i].flux =
             SquaredDifference(extracted[i].freqData, extracted[i - 1].freqData)
    /\ Len(extracted) >= 2 => prevFreqData = <<extracted[Len(extracted)].freqData>>

(* C29: the count is the number of adjacent pairs with one sample below 0  *)
(* and the other not, the rate is that count over the buffer length; a     *)
(* buffer with no sample below 0, or with every sample below 0, has rate   *)
(* 0, and a buffer of n samples whose neighbours have opposite signs has   *)
(* rate (n - 1) / n.                                                       *)
C29_ZeroCrossingRate ==
    zpc = "done" =>
        LET n == Len(zTimeData)
            Negative(i) == zTimeData[i] < 0
            crossings == {i \in 2..n : Negative(i - 1) # Negative(i)}
        IN  /\ zeroCrossingRate.count = Cardinality(crossings)
            /\ zeroCrossingRate.length = n
            /\ ((\A i \in 1..n : Negative(i)) \/ (\A i \in 1..n : ~Negative(i)))
                  => zeroCrossingRate.count = 0
            /\ (\A i \in 2..n : zTimeData[i - 1] * zTimeData[i] < 0)
                  => zeroCrossingRate.count * n = (n - 1) * zeroCrossingRate.length

(* An alternating buffer of four samples: three crossings, rate 3/4. *)
C29_Witness ==
    /\ zpc = "done"
    /\ zTimeData = <<1, -1, 1, -1>>
    /\ zeroCrossingRate = [count |-> 3, length |-> 4]

----------------------------------------------------------------------------
----------------------------------------------------------------------------
(* AudioDatabase: the transcripts table, whose primary key is recordingId. *)
(* Each Dexie call outside a transaction is a request of its own: the      *)
(* query of saveTranscript and its write are two steps, and requests of    *)
(* other calls may be served between them.  Times are instants of the      *)
(* clock; toISOString() writes an instant as text, one text per instant.   *)

RecordingIds == 1..MaxRecordings

SegmentLists ==
    {<<>>, <<[text |-> "hello", start |-> 0, end |-> 10, speaker |-> "A"]>>}

(* this.db.transcripts.where({ recordingId }).first(): the row, if any. *)
Matching(table, recordingId) == {row \in table : row.recordingId = recordingId}

First(rows) == IF rows = {} THEN <<>> ELSE <<CHOOSE row \in rows : TRUE>>

GetTranscript(table, recordingId) == First(Matching(table, recordingId))

(* this.db.transcripts.update(recordingId, { segments, updatedAt }): the   *)
(* row of that key gets the two fields; no row, no change.                 *)
UpdateTranscriptAsPut(table, recordingId, segments, time) ==
    (table \ Matching(table, recordingId))
        \cup {[recordingId |-> recordingId, segments |-> segments,
               createdAt |-> time, updatedAt |-> time]}
UpdateTranscript(table, recordingId, segments, time) ==
    {IF row.recordingId = recordingId
     THEN [row EXCEPT !.segments = segments, !.updatedAt = time]
     ELSE row : row \in table}

(* this.db.transcripts.add({ recordingId, segments, createdAt, updatedAt }) *)
(* fails on a key the table holds (ConstraintError).                        *)
AddFails(table, recordingId) == Matching(table, recordingId) # {}
AddTranscript(table, recordingId, segments, time) ==
    table \cup {[recordingId |-> recordingId, segments |-> segments,
                 createdAt |-> time, updatedAt |-> time]}

(* saveTranscript(recordingId, segments) is called: the query is issued. *)
SaveTranscript(recordingId, segments) ==
    /\ Len(saves) < MaxSaves
    /\ saves' = Append(saves, [recordingId |-> recordingId, segments |-> segments,
                               pc |-> "query", time |-> 0])
    /\ UNCHANGED <<transcripts, written, diarizationVars, processorVars, twinVars,
                   recognizerVars>>

(* The query of the call i is answered: the call goes on to issue its      *)
(* write, update or add, with new Date() taken now.                        *)
SaveQueryAnswered(i) ==
    /\ i \in 1..Len(saves)
    /\ saves[i].pc = "query"
    /\ saves' = [saves EXCEPT ![i].pc =
                    IF GetTranscript(transcripts, saves[i].recordingId) # <<>>
                    THEN "update" ELSE "add",
                              ![i].time = now]
    /\ UNCHANGED <<transcripts, written, diarizationVars, processorVars, twinVars,
                   recognizerVars>>

(* The write of the call i is served, and the call resolves or rejects. *)
SaveWriteServed(i) ==
    /\ i \in 1..Len(saves)
    /\ saves[i].pc \in {"update", "add"}
    /\ LET call == saves[i]
       IN  IF call.pc = "add" /\ AddFails(transcripts, call.recordingId)
           THEN /\ saves' = [saves EXCEPT ![i].pc = "rejected"]
                /\ UNCHANGED <<transcripts, written>>
           ELSE /\ transcripts' =
                     IF call.pc = "update"
                     THEN UpdateTranscript(transcripts, call.recordingId,
                                           call.segments, call.time)
                     ELSE AddTranscript(transcripts, call.recordingId,
                                        call.segments, call.time)
                /\ saves' = [saves EXCEPT ![i].pc = "resolved"]
                /\ written' = Append(written, i)
    /\ UNCHANGED <<diarizationVars, processorVars, twinVars, recognizerVars>>

NextDatabase ==
    \/ \E recordingId \in RecordingIds, segments \in SegmentLists :
          SaveTranscript(recordingId, segments)
    \/ \E i \in 1..MaxSaves : SaveQueryAnswered(i)
    \/ \E i \in 1..MaxSaves : SaveWriteServed(i)
    \/ AdvanceClock

SpecDatabase == Init /\ [][NextDatabase]_vars

----------------------------------------------------------------------------
(* SpeechRecognizer.transcribe.  A handler runs inside the stretch of code *)
(* that invokes it; what it does is one of Behaviours: it returns, it      *)
(* throws, or it calls transcribe() once and returns.  The handlers of a   *)
(* call made by a handler return.  A call is a record: pc is where it      *)
(* stands (refused, await, resolved, rejected), log the notifications      *)
(* delivered to its handlers, entryFlag and exitFlag this.isProcessing as  *)
(* the call was made and as it ended, reentered whether a call made by its *)
(* error handler was accepted.                                             *)

Behaviours == {"returns", "throws", "calls"}

BehaviourLists == [start : Behaviours, complete : Behaviours, error : Behaviours]

NewTranscription ==
    [pc |-> "new", log |-> <<>>, entryFlag |-> FALSE, exitFlag |-> FALSE,
     reentered |-> FALSE]

TranscriptionNote(slot) ==
    IF slot = "error" THEN [type |-> "error", phase |-> "transcription"]
    ELSE [type |-> slot]

(* The two guards of transcribe, before its try block. *)
TranscribeRefusesBusyOnly(ready, flag) == flag
TranscribeRefuses(ready, flag) == ~ready \/ flag

(* transcribe() called by a handler: refused, or accepted and run up to    *)
(* its await.  st is [calls, flag]: the calls made and this.isProcessing.  *)
HandlerCalls(st, ready, installed) ==
    IF TranscribeRefuses(ready, st.flag)
    THEN [st EXCEPT !.calls = Append(@, [NewTranscription EXCEPT
                                            !.pc = "refused",
                                            !.entryFlag = st.flag,
                                            !.exitFlag = st.flag])]
    ELSE [calls |-> Append(st.calls,
                           [NewTranscription EXCEPT
                               !.pc = "await",
                               !.log = IF "start" \in installed
                                       THEN <<TranscriptionNote("start")>> ELSE <<>>]),
          flag |-> TRUE]

(* The handler of slot, if set, is invoked for the call i and behaves as   *)
(* behaviour says.                                                         *)
Invoke(st, i, slot, behaviour, ready, installed) ==
    IF slot \notin installed
    THEN st
    ELSE LET noted == [st EXCEPT !.calls[i].log = Append(@, TranscriptionNote(slot))]
         IN  IF behaviour = "calls" /\ Len(st.calls) < MaxTranscriptions
             THEN LET after == HandlerCalls(noted, ready, installed)
                  IN  IF slot = "error" /\ after.calls[Len(after.calls)].pc = "await"
                      THEN [after EXCEPT !.calls[i].reentered = TRUE]
                      ELSE after
             ELSE noted

Threw(slot, behaviour, installed) == slot \in installed /\ behaviour = "throws"

(* The catch block: the flag is cleared, onError is invoked if set, and    *)
(* the call rejects, with the error caught or with what onError threw.     *)
TranscribeCatch(st, i, behaviours, ready, installed) ==
    LET after == Invoke([st EXCEPT !.flag = FALSE], i, "error", behaviours.error,
                        ready, installed)
    IN  [after EXCEPT !.calls[i].pc = "rejected", !.calls[i].exitFlag = after.flag]

(* An accepted call from the start of its try block up to its await. *)
TranscribeBegins(st, i, behaviours, ready, installed) ==
    LET after == Invoke([st EXCEPT !.flag = TRUE], i, "start", behaviours.start,
                        ready, installed)
    IN  IF Threw("start", behaviours.start, installed)
        THEN TranscribeCatch(after, i, behaviours, ready, installed)
        ELSE [after EXCEPT !.calls[i].pc = "await"]

(* this.processor(...) resolved: the rest of the try block. *)
TranscribeCompletes(st, i, behaviours, ready, installed) ==
    LET after == Invoke(st, i, "complete", behaviours.complete, ready, installed)
    IN  IF Threw("complete", behaviours.complete, installed)
        THEN TranscribeCatch(after, i, behaviours, ready, installed)
        ELSE [after EXCEPT !.flag = FALSE, !.calls[i].pc = "resolved",
                           !.calls[i].exitFlag = FALSE]

(* initialize() resolved: this.processor is set. *)
InitializeRecognizer ==
    /\ ~recognizerProcessor
    /\ recognizerProcessor' = TRUE
    /\ UNCHANGED <<recognizerIsProcessing, recognizerHandlers, transcriptions,
                   diarizationVars, processorVars, twinVars, databaseVars>>

(* The application assigns the callback slots, before it makes any call. *)
SetRecognizerHandlers(slots) ==
    /\ recognizerHandlers = {}
    /\ slots # {}
    /\ transcriptions = <<>>
    /\ recognizerHandlers' = slots
    /\ UNCHANGED <<recognizerProcessor, recognizerIsProcessing, transcriptions,
                   diarizationVars, processorVars, twinVars, databaseVars>>

(* transcribe(audioData, options) is called by code outside the handlers. *)
Transcribe(behaviours) ==
    /\ Len(transcriptions) < MaxTranscriptions
    /\ LET i == Len(transcriptions) + 1
           st == [calls |-> Append(transcriptions,
                                   [NewTranscription EXCEPT
                                       !.entryFlag = recognizerIsProcessing]),
                  flag |-> recognizerIsProcessing]
           after ==
               IF TranscribeRefuses(recognizerProcessor, recognizerIsProcessing)
               THEN [st EXCEPT !.calls[i].pc = "refused", !.calls[i].exitFlag = st.flag]
               ELSE TranscribeBegins(st, i, behaviours, recognizerProcessor,
                                     recognizerHandlers)
       IN  /\ transcriptions' = after.calls
           /\ recognizerIsProcessing' = after.flag
    /\ UNCHANGED <<recognizerProcessor, recognizerHandlers,
                   diarizationVars, processorVars, twinVars, databaseVars>>

(* The processor reports progress to the call i, which awaits it, once;    *)
(* the progress handler returns or calls transcribe().                     *)
TranscriptionProgress(i, behaviour) ==
    /\ i \in 1..Len(transcriptions)
    /\ transcriptions[i].pc = "await"
    /\ "progress" \in recognizerHandlers
    /\ TranscriptionNote("progress") \notin Range(transcriptions[i].log)
    /\ LET after == Invoke([calls |-> transcriptions, flag |-> recognizerIsProcessing],
                           i, "progress", behaviour, recognizerProcessor,
                           recognizerHandlers)
       IN  /\ transcriptions' = after.calls
           /\ recognizerIsProcessing' = after.flag
    /\ UNCHANGED <<recognizerProcessor, recognizerHandlers,
                   diarizationVars, processorVars, twinVars, databaseVars>>

(* this.processor(...) resolves or rejects for the call i. *)
TranscriptionSettles(i, resolves, behaviours) ==
    /\ i \in 1..Len(transcriptions)
    /\ transcriptions[i].pc = "await"
    /\ LET st == [calls |-> transcriptions, flag |-> recognizerIsProcessing]
           after ==
               IF resolves
               THEN TranscribeCompletes(st, i, behaviours, recognizerProcessor,
                                        recognizerHandlers)
               ELSE TranscribeCatch(st, i, behaviours, recognizerProcessor,
                                    recognizerHandlers)
       IN  /\ transcriptions' = after.calls
           /\ recognizerIsProcessing' = after.flag
    /\ UNCHANGED <<recognizerProcessor, recognizerHandlers,
                   diarizationVars, processorVars, twinVars, databaseVars>>

NextRecognizer ==
    \/ InitializeRecognizer
    \/ \E slots \in HandlerConfigs : SetRecognizerHandlers(slots)
    \/ \E behaviours \in BehaviourLists : Transcribe(behaviours)
    \/ \E i \in 1..MaxTranscriptions, behaviour \in {"returns", "calls"} :
          TranscriptionProgress(i, behaviour)
    \/ \E i \in 1..MaxTranscriptions, resolves \in BOOLEAN, behaviours \in BehaviourLists :
          TranscriptionSettles(i, resolves, behaviours)

SpecRecognizer == Init /\ [][NextRecognizer]_vars

----------------------------------------------------------------------------
(* this.minSegmentDuration *)

(* The call in flight is the second of two given the same arguments and    *)
(* the same draws, under the same maxSpeakers and mergeThreshold.          *)
TwinReturned ==
    /\ runs[1].pc = "returned"
    /\ earlier # <<>>
    /\ runs[1].given = earlier[1].given
    /\ drawn = earlier[1].draws
    /\ runs[1].k = earlier[1].maxSpeakers
    /\ mergeThreshold = earlier[1].mergeThreshold

(* The segment of chunk i lies inside a segment of the result that has its *)
(* speaker. *)
ChunkKept(run, i) ==
    \E j \in 1..Len(run.result.segments) :
        /\ run.result.segments[j].start <= run.labeledSegments[i].start
        /\ run.labeledSegments[i].end <= run.result.segments[j].end
        /\ run.result.segments[j].speaker = run.labeledSegments[i].speaker

----------------------------------------------------------------------------
(* AudioDatabase.saveTranscript *)

(* The saves of recordingId that resolved, in the order of their writes. *)
WrittenFor(recordingId) ==
    SelectSeq(written, LAMBDA i : saves[i].recordingId = recordingId)

(* C32: the table holds at most one transcript per recordingId; once a     *)
(* save of an id has resolved, getTranscript(id) returns the segments of   *)
(* the latest save of that id that resolved, with the createdAt the first  *)
(* one wrote; before that it returns nothing.                              *)
C32_SaveTranscriptUpserts ==
    \A recordingId \in RecordingIds :
        LET rows == Matching(transcripts, recordingId)
            done == WrittenFor(recordingId)
            got == GetTranscript(transcripts, recordingId)
        IN  /\ Cardinality(rows) <= 1
            /\ done = <<>> => got = <<>>
            /\ done # <<>> =>
                  /\ got # <<>>
                  /\ got[1].segments = saves[done[Len(done)]].segments
                  /\ got[1].createdAt = saves[done[1]].time

(* Two saves of one id have resolved, the second later than the first and  *)
(* with other segments.                                                    *)
C32_Witness ==
    \E recordingId \in RecordingIds :
        LET done == WrittenFor(recordingId)
        IN  /\ Len(done) = 2
            /\ saves[done[1]].segments # saves[done[2]].segments
            /\ saves[done[1]].time < saves[done[2]].time

----------------------------------------------------------------------------
(* Terminal notifications and the flag around the handlers *)

TerminalNotes(log) == {i \in 1..Len(log) : log[i].type \in {"complete", "error"}}

(* C33 as stated: with the complete and the error handler set, a run that  *)
(* is over has emitted exactly one terminal notification, complete or      *)
(* error, whatever its handlers did.                                       *)
C33_OneTerminalNotification ==
    \A r \in Runs :
        (runs[r].pc \in DonePcs /\ {"complete", "error"} \subseteq handlers) =>
            Cardinality(TerminalNotes(runs[r].log)) = 1


(* The call r is made in this step by the handler the run c is in. *)
CallFrom(r, c) == CallStep(r) /\ Caller = c

(* C34: whenever a run is inside its start, progress or complete handler   *)
(* isProcessing is true, and a call made from inside one fails busy; a run *)
(* enters its error handler with isProcessing false, and the first call    *)
(* made from inside it is accepted.                                        *)
C34_FlagAroundHandlers ==
    /\ [](\A r \in Runs : runs[r].pc \in HandlerPcs \ {"hError"} => isProcessing)
    /\ [][\A r, c \in Runs :
            /\ (CallFrom(r, c) /\ runs[c].pc \in HandlerPcs \ {"hError"}) =>
                  runs'[r].pc = "busy"
            /\ (runs[c].pc # "hError" /\ runs'[c].pc = "hError") => ~isProcessing'
            /\ (CallFrom(r, c) /\ runs[c].pc = "hError" /\ ~runs[c].reentered) =>
                  /\ runs'[r].pc # "busy"
                  /\ runs'[c].reentered]_vars

(* A run is inside its error handler, which made a call that was accepted  *)
(* and is in flight.                                                       *)
C34_Witness ==
    \E r, c \in Runs :
        /\ runs[c].pc = "hError"
        /\ runs[c].reentered
        /\ InFlight(r)

----------------------------------------------------------------------------
(* Recording sessions *)

(* C36 as stated: db.createRecording() is called only with no recording    *)
(* active and no earlier startRecording call awaiting it, and a            *)
(* MediaRecorder is created only with no recording active.                 *)
C36_OneSessionAtATime ==
    [][/\ starting' > starting => (~isRecording /\ starting = 0)
       /\ currentRecordingId' # currentRecordingId => ~isRecording]_vars


(* C37: isPaused implies isRecording in every state; a pauseRecording call *)
(* made unless recording and not paused, and a resumeRecording call made   *)
(* unless recording and paused, leave every field as it was; while one     *)
(* recording goes on totalPauseDuration never decreases, and the step that *)
(* starts a recording leaves it 0.                                         *)
C37_PauseDiscipline ==
    /\ [](isPaused => isRecording)
    /\ [][/\ (PauseRecording /\ ~(isRecording /\ ~isPaused)) =>
                UNCHANGED <<now, sessionVars, recordedFeatures>>
          /\ (ResumeRecording /\ ~(isRecording /\ isPaused)) =>
                UNCHANGED <<now, sessionVars, recordedFeatures>>
          /\ (isRecording /\ isRecording' /\ currentRecordingId' = currentRecordingId) =>
                totalPauseDuration' >= totalPauseDuration
          /\ (~isRecording /\ isRecording') => totalPauseDuration' = 0]_vars

(* A recording is paused for the second time, after a pause that lasted. *)
C37_Witness ==
    /\ isRecording
    /\ isPaused
    /\ totalPauseDuration > 0

----------------------------------------------------------------------------
(* SpeechRecognizer.transcribe *)

Settled(call) == call.pc \in {"resolved", "rejected"}

(* C38 as stated, the flag: isProcessing is false as an accepted call      *)
(* resolves or rejects.                                                    *)
C38_FlagClearWhenSettled ==
    \A i \in 1..Len(transcriptions) :
        Settled(transcriptions[i]) => ~transcriptions[i].exitFlag

(* C38, amended: at most one call awaits the processor; a call made with   *)
(* no model or while isProcessing is true is refused with no notification  *)
(* and isProcessing as it was; a call that resolves leaves isProcessing    *)
(* false, a call that rejects leaves it false unless a transcribe call     *)
(* made by its error handler was accepted; and a rejected call has         *)
(* notified the error handler, if set, of an error of phase transcription. *)
C38_OneTranscriptionAtATime ==
    /\ Cardinality({i \in 1..Len(transcriptions) : transcriptions[i].pc = "await"}) <= 1
    /\ recognizerIsProcessing =>
          \E i \in 1..Len(transcriptions) : transcriptions[i].pc = "await"
    /\ \A i \in 1..Len(transcriptions) :
          LET call == transcriptions[i]
          IN  /\ (call.entryFlag \/ ~recognizerProcessor) => call.pc = "refused"
              /\ call.pc = "refused" =>
                    /\ call.log = <<>>
                    /\ call.exitFlag = call.entryFlag
              /\ call.pc = "resolved" => ~call.exitFlag
              /\ (call.pc = "rejected" /\ call.exitFlag) => call.reentered
              /\ (call.pc = "rejected" /\ "error" \in recognizerHandlers) =>
                    /\ call.log # <<>>
                    /\ call.log[Len(call.log)] = [type |-> "error", phase |-> "transcription"]

(* A call was refused while another awaited the processor, and a call      *)
(* rejected after its error handler was notified.                          *)
C38_Witness ==
    \E i, j \in 1..Len(transcriptions) :
        /\ transcriptions[i].pc = "refused"
        /\ transcriptions[i].entryFlag
        /\ transcriptions[j].pc = "rejected"
        /\ ~transcriptions[j].exitFlag
        /\ transcriptions[j].log # <<>>

----------------------------------------------------------------------------
(* The stop-recording pipeline of the application *)

(* C35 as stated: a job gives db.saveTranscript the id of the recording    *)
(* that was stopped.                                                       *)
C35_SavedUnderStoppedRecording ==
    \A j \in 1..Len(jobs) :
        jobs[j].savedAs # <<>> => jobs[j].savedAs[1] = jobs[j].recording

PipelineSteps ==
    <<"stopped", "read", "transcribe", "transcribed", "diarize", "diarized",
      "save", "saved">>

(* C39: what a job has done is a beginning of: recording stopped, features *)
(* read, transcribe called, transcription completed, diarize called,       *)
(* diarization completed, save called, saved; a job whose transcription or *)
(* diarization failed has called no save.                                  *)
C39_PipelineOrder ==
    \A j \in 1..Len(jobs) :
        /\ Len(jobs[j].steps) <= Len(PipelineSteps)
        /\ jobs[j].steps = SubSeq(PipelineSteps, 1, Len(jobs[j].steps))
        /\ jobs[j].pc = "failed" =>
              /\ "save" \notin Range(jobs[j].steps)
              /\ jobs[j].savedAs = <<>>
        /\ jobs[j].pc = "done" => jobs[j].steps = PipelineSteps

(* One job went through to the save, another failed in diarization. *)
C39_Witness ==
    \E j, k \in 1..Len(jobs) :
        /\ jobs[j].pc = "done"
        /\ jobs[k].pc = "failed"
        /\ "diarize" \in Range(jobs[k].steps)

====
